---- MODULE Spec2Model ----
(***************************************************************************)
(* Storage and query core of couchbase-lite-core:                          *)
(*   - BothKeyStore (LiteCore/Storage/BothKeyStore.cc): live + dead        *)
(*     sub-stores with one sequence allocator, and the merged enumerator;  *)
(*   - Database / Transaction (CBForest/Database.cc): the per-file         *)
(*     transaction slot;                                                   *)
(*   - SQLiteQueryEnumerator (LiteCore/Query/SQLiteQuery.cc).              *)
(* Each subsystem has its own specification over its own variables; the    *)
(* variables of the other subsystems stay at their initial values.         *)
(***************************************************************************)
EXTENDS Integers, Sequences, FiniteSets, TLC

VARIABLES
    \* ---- BothKeyStore ----
    recs,        \* recs[s][k]: the record of key k in physical store s (seq 0 = absent)
    lastSeq,     \* lastSeq[s]: last sequence handed out by the allocator owned by store s
    seqOf,       \* seqOf[s]: the store whose allocator store s draws sequences from
    call,        \* arguments of the last BothKeyStore::set call
    ret,         \* its outcome: returned sequence, or the error it raised
    pre          \* recs and lastSeq as they were when that call was made

VARIABLES
    \* ---- Database / Transaction ----
    sFileMap,    \* File::sFileMap: path -> File (0 = no entry)
    nFiles,      \* number of File objects created so far
    dbFile,      \* dbFile[d]: Database::_file of database d (0 = d is not open)
    dbPath,      \* dbPath[d]: the path database d was opened on
    fileTxn,     \* fileTxn[f]: File::_transaction, the Transaction (thread) in the slot, 0 = NULL
    waiters,     \* waiters[f]: threads blocked in File::_transactionCond.wait
    pc,          \* pc[t]: where thread t is
    txDb,        \* txDb[t]: Transaction::_db of t's Transaction
    txState,     \* txState[t]: Transaction::_state
    raised,      \* raised[t]: the error the last Transaction operation of t raised
    blocked,     \* blocked[t]: t had to wait for the slot in its current beginTransaction
    txBegan,     \* txBegan[t]: the state t's Transaction was constructed with
    txFailed,    \* txFailed[t]: a guarded operation of t's Transaction has failed
    delStage,    \* delStage[t]: how far t is in Database::deleteDatabase ("no" = not in it)
    engCall      \* engCall[t]: the engine call the last beginTransaction pass or
                 \* endTransaction of t made ("none" = no call), and whether it succeeded

VARIABLES
    \* ---- BothEnumeratorImpl (merged enumerator) ----
    mLiveRows,   \* what the live store's enumerator yields, in its order
    mDeadRows,   \* what the dead store's enumerator yields, in its order
    mOpts,       \* bySequence, since, options.sortOption
    mLive,       \* _liveImpl: [alive: the pointer is non-null, pos: rows stepped]
    mDead,       \* _deadImpl
    mCmp,        \* _cmp
    mCurrent,    \* _current: "null", "live" or "dead"
    mRet,        \* outcome of the last next(): "none", "true", "false", "crash", "garbage"
    mOut,        \* the records read through the enumerator after each next() = true
    mPast,       \* next() has been called again after it returned false
    mImpl,       \* what BothKeyStore::newEnumeratorImpl returned: "both" (a
                 \* BothEnumeratorImpl) or "live" (the live store's own enumerator)
    mAsked       \* the options newEnumeratorImpl was called with

VARIABLES
    \* ---- SQLiteQuery / SQLiteQueryEnumerator ----
    qN,          \* number of rows of the query's result when the enumerator was created
    qTable,      \* the result the statement reads now: [len: row count, ver: data version]
    qWriter,     \* a writer's transaction is open on the data file
    qObservers,  \* the enumerator is in the data file's pre-transaction observer list
    qStmt,       \* the Query's compiled statement: [pos: rows stepped since its last reset]
    eOneShot,    \* _options.oneShot
    eHasStmt,    \* _statement is non-null
    eRowCount,   \* _rowCount
    eCurRow,     \* _curRow
    eCur,        \* _curEnumerator
    eNext,       \* _nextEnumerator
    eOld,        \* _oldEnumerator
    eObserving,  \* _observingTransaction
    eRet,        \* outcome of the enumerator's last operation
    eYield,      \* the row read (columns()) after each next() that returned true, for an
                 \* iteration from the start that no seek has interrupted
    qLastSeq,    \* lastSequence of the key-store the query reads
    eLastSeq,    \* _lastSequence
    eCall        \* the last operation on the enumerator: its name, the argument of a
                 \* seek, the value a getRowCount returned

VARIABLES
    \* ---- BothKeyStore::nextExpiration ----
    xLive,       \* what _liveStore->nextExpiration() reports (0 = no expiration)
    xDead,       \* what _deadStore->nextExpiration() reports
    xRet         \* result of the last BothKeyStore::nextExpiration call (-1 = not called)

VARIABLES
    \* ---- Database::_kvHandles (named key-store handles) ----
    kvHandles,   \* _kvHandles: name -> handle; NoEntry = no entry, 0 = an entry holding NULL
    kvOpen,      \* the key-store handles that are open in the engine
    kvOpens,     \* number of handles fdb_kvs_open has handed out
    kvCall,      \* the last call: [op, name]
    kvRet,       \* its outcome: [h: the handle openKVS returned, err: the error raised]
    kvLast,      \* kvLast[name]: the handle the last openKVS(name) returned, 0 after the
                 \* handle was closed or when name was never opened
    kvFile,      \* _fileHandle is not NULL
    kvStale      \* the key-store handles that belonged to a file handle deleteDatabase
                 \* has closed

kvsVars == <<kvHandles, kvOpen, kvOpens, kvCall, kvRet, kvLast, kvFile, kvStale>>

VARIABLES
    \* ---- DBActor: peer checkpoints ----
    cpStore,     \* the "peerCheckpoints" raw documents: client ID -> [present, meta, body]
    cpCall,      \* the last request and what the storage calls made for it returned
    cpResp       \* the responses sent to that request, in order

cpVars == <<cpStore, cpCall, cpResp>>

VARIABLES
    \* ---- SQLiteQueryEnumerator::encodeRow ----
    rNulls,      \* the columns of the statement's current row that are SQL NULL
    rType,       \* the SQLite type of its other columns
    rValid,      \* whether a blob column holds valid Fleece data
    rBuild,      \* what this build makes of a 32-bit shift by 32 or more
    rDone,       \* "no", "encoded" or the error encodeRow raised
    rMissing     \* the bits set in the bitmap written after the row (a set of bit
                 \* numbers: the 64-bit value is the sum of 2^b over its members)

rowVars == <<rNulls, rType, rValid, rBuild, rDone, rMissing>>

VARIABLES
    \* ---- one SQLiteQuery and the enumerators created from it ----
    shN,         \* number of rows of the query's result (under any parameter binding)
    shStmt,      \* SQLiteQuery::_statement, the one statement its enumerators share:
                 \* [pos: rows stepped since the last reset, bound: the parameter
                 \* value bound to it, 0 = bindings cleared]
    shEnum,      \* shEnum[k]: enumerator k, [life, oneShot, param, e, yield, ret]
    shCall       \* the last call: [op, k]

sharedVars == <<shN, shStmt, shEnum, shCall>>

\* The writers of one Database::File: where each thread is in its Transaction
\* (idle, waiting in _transactionCond.wait, woken, active), File::_transaction,
\* each Transaction's _state, and the last call that was made.
VARIABLES
    wkPc, wkTransaction, wkState, wkStep

writerVars == <<wkPc, wkTransaction, wkState, wkStep>>

\* DBActor and its database observer: the last sequence of the database, the last
\* sequence the observer has handed out, the sequences of the changes the pusher
\* was given by the last dbChanged (one after the other, call after call), and
\* what was pending when that dbChanged began.
VARIABLES
    dbLastSeq, obsSeen, pusherGot, dcCall

changeVars == <<dbLastSeq, obsSeen, pusherGot, dcCall>>

bksVars == <<recs, lastSeq, seqOf, call, ret, pre>>

expVars == <<xLive, xDead, xRet>>

txnVars == <<sFileMap, nFiles, dbFile, dbPath, fileTxn, waiters, pc, txDb, txState,
             raised, blocked, txBegan, txFailed, delStage, engCall>>

mergeVars == <<mLiveRows, mDeadRows, mOpts, mLive, mDead, mCmp, mCurrent, mRet, mOut,
               mPast, mImpl, mAsked>>

queryVars == <<qN, qTable, qWriter, qObservers, qStmt, eOneShot, eHasStmt, eRowCount,
               eCurRow, eCur, eNext, eOld, eObserving, eRet, eYield, qLastSeq, eLastSeq,
               eCall>>

vars == <<bksVars, txnVars, mergeVars, queryVars, expVars, kvsVars, cpVars, rowVars, sharedVars, writerVars, changeVars>>

\* Frame conditions: a step of one subsystem leaves the others alone.
OnlyBKS == UNCHANGED <<txnVars, mergeVars, queryVars, expVars, kvsVars, cpVars, rowVars, sharedVars, writerVars, changeVars>>

OnlyTxn == UNCHANGED <<bksVars, mergeVars, queryVars, expVars, kvsVars, cpVars, rowVars, sharedVars, writerVars, changeVars>>

OnlyMerge == UNCHANGED <<bksVars, txnVars, queryVars, expVars, kvsVars, cpVars, rowVars, sharedVars, writerVars, changeVars>>

OnlyQuery == UNCHANGED <<bksVars, txnVars, mergeVars, expVars, kvsVars, cpVars, rowVars, sharedVars, writerVars, changeVars>>

OnlyExp == UNCHANGED <<bksVars, txnVars, mergeVars, queryVars, kvsVars, cpVars, rowVars, sharedVars, writerVars, changeVars>>

OnlyKvs == UNCHANGED <<bksVars, txnVars, mergeVars, queryVars, expVars, cpVars, rowVars, sharedVars, writerVars, changeVars>>

OnlyCp == UNCHANGED <<bksVars, txnVars, mergeVars, queryVars, expVars, kvsVars, rowVars, sharedVars, writerVars, changeVars>>

OnlyRow == UNCHANGED <<bksVars, txnVars, mergeVars, queryVars, expVars, kvsVars, cpVars, sharedVars, writerVars, changeVars>>

OnlyShared == UNCHANGED <<bksVars, txnVars, mergeVars, queryVars, expVars, kvsVars, cpVars, rowVars, writerVars, changeVars>>

OnlyWriters == UNCHANGED <<bksVars, txnVars, mergeVars, queryVars, expVars, kvsVars, cpVars, rowVars, sharedVars, changeVars>>

OnlyChanges == UNCHANGED <<bksVars, txnVars, mergeVars, queryVars, expVars, kvsVars, cpVars, rowVars, sharedVars, writerVars>>

--------------------------------------------------------------------------
(* Bounds *)

NumKeys == 2
MaxSeq == 4
NumThreads == 2
NumDbs == 2
NumMergeKeys == 3
MaxMergeSeq == 4
MaxSince == 1
MaxRows == 102
MaxWrites == 1
MaxExpiration == 8
MaxSeekRows == 3
MaxOpens == 3
MaxGen == 3
MaxCols == 66
MaxNullCols == 2
MaxSharedRows == 1
NumWriters == 3
MaxChangeSeq == 103

Keys == 1..NumKeys
StoreNames == {"live", "dead"}

--------------------------------------------------------------------------
(* Physical KeyStore: the contract of get / set / del (sequence 0 = no record) *)

NoRec == [seq |-> 0, deleted |-> FALSE]

\* The state a set call works on: the records of both stores and the allocators.
StoreState(r, l) == [recs |-> r, last |-> l]

KeyStore_exists(st, s, key) == st.recs[s][key].seq > 0

\* Write record (key, seq, flags) into store s and advance s's allocator to seq.
KeyStore_write(st, s, key, seq, deleted, alloc) ==
    [recs |-> [st.recs EXCEPT ![s][key] = [seq |-> seq, deleted |-> deleted]],
     last |-> IF alloc THEN [st.last EXCEPT ![seqOf[s]] = seq] ELSE st.last]

\* KeyStore::set. Result: [st |-> new state, seq |-> returned sequence (0 = conflict)].
KeyStore_set(st, s, key, deleted, mvcc, rs, newSequence) ==
    LET cur  == st.recs[s][key].seq
        next == st.last[seqOf[s]] + 1
    IN  IF ~mvcc
          THEN [st |-> KeyStore_write(st, s, key, next, deleted, TRUE), seq |-> next]
        ELSE IF rs = 0
          THEN IF cur = 0
                 THEN [st |-> KeyStore_write(st, s, key, next, deleted, TRUE), seq |-> next]
                 ELSE [st |-> st, seq |-> 0]
        ELSE IF cur # rs
          THEN [st |-> st, seq |-> 0]
        ELSE IF newSequence
          THEN [st |-> KeyStore_write(st, s, key, next, deleted, TRUE), seq |-> next]
        ELSE [st |-> KeyStore_write(st, s, key, rs, deleted, FALSE), seq |-> rs]

\* KeyStore::del, unconditional (cas = FALSE) or only if the stored sequence is expected.
KeyStore_del(st, s, key, cas, expected) ==
    LET cur == st.recs[s][key].seq
        ok  == cur > 0 /\ (cas => cur = expected)
    IN  [st |-> IF ok THEN [st EXCEPT !.recs[s][key] = NoRec] ELSE st, ok |-> ok]

--------------------------------------------------------------------------
(* BothKeyStore *)

\* BothKeyStore::BothKeyStore: deadStore->shareSequencesWith(*liveStore).
BothKeyStore_ctor_unshared == [live |-> "live", dead |-> "dead"]

BothKeyStore_ctor == [live |-> "live", dead |-> "live"]

\* Mutant: the Deleted flag is ignored when the store to update is chosen.
Target_ignoresFlag(deleted) == "live"

\* target = (deleting ? _deadStore : _liveStore), other = the opposite one.
Target(deleted) == IF deleted THEN "dead" ELSE "live"

Other(deleted) == IF deleted THEN "live" ELSE "dead"

Outcome(st, seq, err) == [st |-> st, seq |-> seq, err |-> err]

\* Mutant: the overwrite path forgets to delete the key from the other store.
BothKeyStore_set_keepOther(st, key, deleted, mvcc, rs, newSequence) ==
    LET target == Target(deleted)
        other  == Other(deleted)
        s1 == KeyStore_set(st, target, key, deleted, mvcc, rs, newSequence)
    IN  IF ~mvcc
          THEN Outcome(s1.st, s1.seq, "none")
        ELSE IF rs = 0 /\ KeyStore_exists(st, other, key)
          THEN Outcome(st, 0, "none")
        ELSE IF s1.seq = 0 /\ rs > 0
          THEN IF ~newSequence
                 THEN Outcome(s1.st, 0, "AssertionFailed")
                 ELSE LET d == KeyStore_del(s1.st, other, key, TRUE, rs)
                          s2 == KeyStore_set(d.st, target, key, deleted, FALSE, 0, TRUE)
                      IN  IF d.ok THEN Outcome(s2.st, s2.seq, "none")
                                  ELSE Outcome(d.st, 0, "none")
        ELSE Outcome(s1.st, s1.seq, "none")

\* Mutant: the MVCC insert does not look at the other store.
BothKeyStore_set_blindInsert(st, key, deleted, mvcc, rs, newSequence) ==
    LET target == Target(deleted)
        other  == Other(deleted)
        s1 == KeyStore_set(st, target, key, deleted, mvcc, rs, newSequence)
    IN  IF ~mvcc
          THEN LET d == IF s1.seq > 0
                          THEN KeyStore_del(s1.st, other, key, FALSE, 0)
                          ELSE [st |-> s1.st, ok |-> FALSE]
               IN  Outcome(d.st, s1.seq, "none")
        ELSE IF s1.seq = 0 /\ rs > 0
          THEN IF ~newSequence
                 THEN Outcome(s1.st, 0, "AssertionFailed")
                 ELSE LET d == KeyStore_del(s1.st, other, key, TRUE, rs)
                          s2 == KeyStore_set(d.st, target, key, deleted, FALSE, 0, TRUE)
                      IN  IF d.ok THEN Outcome(s2.st, s2.seq, "none")
                                  ELSE Outcome(d.st, 0, "none")
        ELSE Outcome(s1.st, s1.seq, "none")

\* Mutant: after a conflict the key is deleted from the other store whatever its sequence.
BothKeyStore_set_noCAS(st, key, deleted, mvcc, rs, newSequence) ==
    LET target == Target(deleted)
        other  == Other(deleted)
        s1 == KeyStore_set(st, target, key, deleted, mvcc, rs, newSequence)
    IN  IF ~mvcc
          THEN LET d == IF s1.seq > 0
                          THEN KeyStore_del(s1.st, other, key, FALSE, 0)
                          ELSE [st |-> s1.st, ok |-> FALSE]
               IN  Outcome(d.st, s1.seq, "none")
        ELSE IF rs = 0 /\ KeyStore_exists(st, other, key)
          THEN Outcome(st, 0, "none")
        ELSE IF s1.seq = 0 /\ rs > 0
          THEN IF ~newSequence
                 THEN Outcome(s1.st, 0, "AssertionFailed")
                 ELSE LET d == KeyStore_del(s1.st, other, key, FALSE, 0)
                          s2 == KeyStore_set(d.st, target, key, deleted, FALSE, 0, TRUE)
                      IN  IF d.ok THEN Outcome(s2.st, s2.seq, "none")
                                  ELSE Outcome(d.st, 0, "none")
        ELSE Outcome(s1.st, s1.seq, "none")

\* BothKeyStore::set. mvcc = FALSE is replacingSequence == nullptr.  Result: the new
\* state, the returned sequence, and the error raised ("none" when it returns).
BothKeyStore_set(st, key, deleted, mvcc, rs, newSequence) ==
    LET target == Target(deleted)
        other  == Other(deleted)
        s1 == KeyStore_set(st, target, key, deleted, mvcc, rs, newSequence)
    IN  IF ~mvcc
          THEN \* Overwrite: just set, and del from other store
               LET d == IF s1.seq > 0
                          THEN KeyStore_del(s1.st, other, key, FALSE, 0)
                          ELSE [st |-> s1.st, ok |-> FALSE]
               IN  Outcome(d.st, s1.seq, "none")
        ELSE IF rs = 0 /\ KeyStore_exists(st, other, key)
          THEN Outcome(st, 0, "none")
        ELSE IF s1.seq = 0 /\ rs > 0
          THEN \* Conflict: Assert(newSequence), then CAS-delete from other and retry
               IF ~newSequence
                 THEN Outcome(s1.st, 0, "AssertionFailed")
                 ELSE LET d == KeyStore_del(s1.st, other, key, TRUE, rs)
                          s2 == KeyStore_set(d.st, target, key, deleted, FALSE, 0, TRUE)
                      IN  IF d.ok THEN Outcome(s2.st, s2.seq, "none")
                                  ELSE Outcome(d.st, 0, "none")
        ELSE Outcome(s1.st, s1.seq, "none")

\* KeyStore::recordCount of one physical store: its records, without those flagged
\* Deleted unless includeDeleted.
KeyStore_recordCount(st, s, includeDeleted) ==
    Cardinality({k \in Keys : /\ st.recs[s][k].seq > 0
                              /\ (includeDeleted \/ ~st.recs[s][k].deleted)})

\* Mutant: the dead store is counted whatever includeDeleted says.
BothKeyStore_recordCount_always(st, includeDeleted) ==
    KeyStore_recordCount(st, "live", TRUE) + KeyStore_recordCount(st, "dead", TRUE)

\* BothKeyStore::recordCount.
BothKeyStore_recordCount(st, includeDeleted) ==
    LET count == KeyStore_recordCount(st, "live", TRUE)
    IN  IF includeDeleted THEN count + KeyStore_recordCount(st, "dead", TRUE) ELSE count

Min(a, b) == IF a < b THEN a ELSE b

Max(a, b) == IF a > b THEN a ELSE b

\* Mutant: the plain minimum of the two results.
BothKeyStore_nextExpiration_plainMin(lx, dx) == Min(lx, dx)

\* BothKeyStore::nextExpiration over the sub-stores' results lx and dx.
BothKeyStore_nextExpiration(lx, dx) ==
    IF lx > 0 /\ dx > 0 THEN Min(lx, dx) ELSE Max(lx, dx)

NoCall == [op |-> "none", key |-> 1, deleted |-> FALSE, mvcc |-> FALSE, rs |-> 0,
           newSequence |-> TRUE]

NoRet == [seq |-> 0, err |-> "none"]

EmptyRecs == [s \in StoreNames |-> [k \in Keys |-> NoRec]]

InitBKS ==
    /\ recs = EmptyRecs
    /\ lastSeq = [s \in StoreNames |-> 0]
    /\ seqOf = BothKeyStore_ctor
    /\ call = NoCall
    /\ ret = NoRet
    /\ pre = StoreState(EmptyRecs, [s \in StoreNames |-> 0])

\* One call of BothKeyStore::set.  newSequence = false is only meaningful for an
\* MVCC update (replacingSequence > 0), where the sequence is reused.
Set(key, deleted, mvcc, rs, newSequence) ==
    /\ \A s \in StoreNames : lastSeq[s] < MaxSeq
    /\ mvcc \/ rs = 0
    /\ newSequence \/ (mvcc /\ rs > 0)
    /\ LET r == BothKeyStore_set(StoreState(recs, lastSeq), key, deleted, mvcc, rs,
                                 newSequence)
       IN  /\ recs' = r.st.recs
           /\ lastSeq' = r.st.last
           /\ ret' = [seq |-> r.seq, err |-> r.err]
    /\ call' = [op |-> "set", key |-> key, deleted |-> deleted, mvcc |-> mvcc,
                rs |-> rs, newSequence |-> newSequence]
    /\ pre' = StoreState(recs, lastSeq)
    /\ UNCHANGED seqOf
    /\ OnlyBKS

NextBKS ==
    \E key \in Keys, deleted \in BOOLEAN, mvcc \in BOOLEAN, rs \in 0..MaxSeq,
       newSequence \in BOOLEAN :
        Set(key, deleted, mvcc, rs, newSequence)

--------------------------------------------------------------------------
(* BothKeyStore::nextExpiration over what the two sub-stores report *)

Expirations == 0..MaxExpiration

InitExp ==
    /\ xLive \in Expirations
    /\ xDead \in Expirations
    /\ xRet = -1

\* No expiration query in use.
ParkedExp ==
    /\ xLive = 0
    /\ xDead = 0
    /\ xRet = -1

\* The earliest expiration of a sub-store changes (a record's expiration is set or
\* cleared, or a record expires).
ExpirationChanges(s, x) ==
    /\ IF s = "live" THEN xLive' = x /\ UNCHANGED xDead
                     ELSE xDead' = x /\ UNCHANGED xLive
    /\ xRet' = -1
    /\ OnlyExp

\* One call of BothKeyStore::nextExpiration.
NextExpiration ==
    /\ xRet' = BothKeyStore_nextExpiration(xLive, xDead)
    /\ UNCHANGED <<xLive, xDead>>
    /\ OnlyExp

NextExp ==
    \/ \E s \in StoreNames, x \in Expirations : ExpirationChanges(s, x)
    \/ NextExpiration

--------------------------------------------------------------------------
(* Database::File and the transaction slot (CBForest/Database.cc) *)

Threads == 1..NumThreads
Dbs == 1..NumDbs
Files == 1..NumDbs
Paths == {"p1", "p2"}

\* Mutant: forPath creates a File on every call and never shares one.
forPath_alwaysNew(map, n, path) ==
    [file |-> n + 1, map |-> [map EXCEPT ![path] = n + 1], n |-> n + 1]

\* Database::File::forPath, under sMutex: look the path up, create the File if absent.
forPath(map, n, path) ==
    IF map[path] = 0
      THEN [file |-> n + 1, map |-> [map EXCEPT ![path] = n + 1], n |-> n + 1]
      ELSE [file |-> map[path], map |-> map, n |-> n]

\* Database::beginTransaction, one pass under _transactionMutex.  cur is
\* File::_transaction.  The outcome is "wait" (condition wait), "throw" (the engine
\* failed to open a transaction) or "return" (t now occupies the slot).
beginTransaction(cur, t, state, engineOk) ==
    IF cur # 0
      THEN [outcome |-> "wait", transaction |-> cur, engine |-> "none"]
    ELSE IF state = "kCommit" /\ ~engineOk
      THEN [outcome |-> "throw", transaction |-> cur, engine |-> "fdb_begin_transaction"]
    ELSE [outcome |-> "return", transaction |-> t,
          engine |-> IF state = "kCommit" THEN "fdb_begin_transaction" ELSE "none"]

\* The engine call endTransaction makes for a Transaction state.
EngineEnd(state) ==
    CASE state = "kCommit" -> "fdb_end_transaction"
      [] state = "kAbort"  -> "fdb_abort_transaction"
      [] state = "kNoOp"   -> "none"

\* Mutant: the commit status is checked before the slot is released.
endTransaction_checkFirst(cur, t, state, commitOk) ==
    IF state = "kCommit" /\ ~commitOk
      THEN [transaction |-> cur, notify |-> FALSE, raise |-> TRUE,
            engine |-> EngineEnd(state)]
      ELSE [transaction |-> 0, notify |-> TRUE, raise |-> FALSE,
            engine |-> EngineEnd(state)]

\* Mutant: the status of the abort is kept and checked like that of the commit.
endTransaction_abortChecked(cur, t, state, commitOk) ==
    [transaction |-> 0, notify |-> TRUE, raise |-> (state # "kNoOp" /\ ~commitOk),
     engine |-> EngineEnd(state)]

\* Database::endTransaction: commit / abort / nothing by state, then clear the slot
\* and notify_one under the mutex, then check(status).
endTransaction(cur, t, state, commitOk) ==
    [transaction |-> 0, notify |-> TRUE, raise |-> (state = "kCommit" /\ ~commitOk),
     engine |-> EngineEnd(state)]

\* Mutant: a failing status is raised without touching the state.
check_noAbort(state, ok) == [state |-> state, raise |-> ~ok]

\* Transaction::check(status); ok is status == FDB_RESULT_SUCCESS.
check(state, ok) ==
    IF ~ok THEN [state |-> "kAbort", raise |-> TRUE]
           ELSE [state |-> state, raise |-> FALSE]

\* Mutant: the Transaction of deleteDatabase ends as soon as the file is closed.
deleteDatabase_shortScope(stage, ok, andReopen) ==
    IF ~ok THEN [stage |-> "no", release |-> TRUE, raise |-> TRUE]
    ELSE CASE stage = "begun"     -> [stage |-> "closed", release |-> TRUE, raise |-> FALSE]
           [] stage = "closed"    -> [stage |-> IF andReopen THEN "destroyed" ELSE "no",
                                      release |-> ~andReopen, raise |-> FALSE]
           [] stage = "destroyed" -> [stage |-> "no", release |-> TRUE, raise |-> FALSE]

\* Database::deleteDatabase after its Transaction t(this, false) has the slot, one
\* engine call at a time: "begun" -> filename() and fdb_close, deleted();
\* "closed" -> fdb_destroy; "destroyed" -> reopen(path).  ok = the call succeeded.
\* stage "no" means the function is left (by return or by the raised error), release
\* that t goes out of scope.
deleteDatabase(stage, ok, andReopen) ==
    IF ~ok THEN [stage |-> "no", release |-> TRUE, raise |-> TRUE]
    ELSE CASE stage = "begun"     -> [stage |-> "closed", release |-> FALSE, raise |-> FALSE]
           [] stage = "closed"    -> [stage |-> IF andReopen THEN "destroyed" ELSE "no",
                                      release |-> ~andReopen, raise |-> FALSE]
           [] stage = "destroyed" -> [stage |-> "no", release |-> TRUE, raise |-> FALSE]

EngineCall(fn, ok) == [call |-> fn, ok |-> (fn = "none" \/ ok)]

NoEngineCall == EngineCall("none", TRUE)

InitTxn ==
    /\ sFileMap = [p \in Paths |-> 0]
    /\ nFiles = 0
    /\ dbFile = [d \in Dbs |-> 0]
    /\ dbPath = [d \in Dbs |-> "none"]
    /\ fileTxn = [f \in Files |-> 0]
    /\ waiters = [f \in Files |-> {}]
    /\ pc = [t \in Threads |-> "idle"]
    /\ txDb = [t \in Threads |-> 0]
    /\ txState = [t \in Threads |-> "kNoOp"]
    /\ raised = [t \in Threads |-> "none"]
    /\ blocked = [t \in Threads |-> FALSE]
    /\ txBegan = [t \in Threads |-> "kNoOp"]
    /\ txFailed = [t \in Threads |-> FALSE]
    /\ delStage = [t \in Threads |-> "no"]
    /\ engCall = [t \in Threads |-> NoEngineCall]

\* Database::Database(path): _file(File::forPath(path)).  Database objects and paths
\* are interchangeable: the objects are taken in order, the first path used is p1.
OpenDatabase(d, path) ==
    /\ dbFile[d] = 0
    /\ \A e \in Dbs : e < d => dbFile[e] # 0
    /\ nFiles = 0 => path = "p1"
    /\ LET r == forPath(sFileMap, nFiles, path)
       IN  /\ sFileMap' = r.map
           /\ nFiles' = r.n
           /\ dbFile' = [dbFile EXCEPT ![d] = r.file]
    /\ dbPath' = [dbPath EXCEPT ![d] = path]
    /\ UNCHANGED <<fileTxn, waiters, pc, txDb, txState, raised, blocked, txBegan, txFailed,
                   delStage, engCall>>
    /\ OnlyTxn

\* One pass of thread t through the locked section of beginTransaction.
BeginPass(t, d, state, engineOk, wasBlocked) ==
    LET f == dbFile[d]
        r == beginTransaction(fileTxn[f], t, state, engineOk)
    IN  /\ fileTxn' = [fileTxn EXCEPT ![f] = r.transaction]
        /\ txDb' = [txDb EXCEPT ![t] = IF r.outcome = "throw" THEN 0 ELSE d]
        /\ txState' = [txState EXCEPT ![t] = IF r.outcome = "throw" THEN "kNoOp" ELSE state]
        /\ pc' = [pc EXCEPT ![t] = CASE r.outcome = "wait"   -> "waiting"
                                     [] r.outcome = "throw"  -> "idle"
                                     [] r.outcome = "return" -> "active"]
        /\ waiters' = [waiters EXCEPT ![f] = IF r.outcome = "wait" THEN @ \cup {t} ELSE @]
        /\ raised' = [raised EXCEPT ![t] = IF r.outcome = "throw" THEN "begin" ELSE "none"]
        /\ blocked' = [blocked EXCEPT ![t] = CASE r.outcome = "wait"   -> TRUE
                                               [] r.outcome = "throw"  -> FALSE
                                               [] r.outcome = "return" -> wasBlocked]
        /\ txBegan' = [txBegan EXCEPT ![t] = IF r.outcome = "throw" THEN "kNoOp" ELSE state]
        /\ txFailed' = [txFailed EXCEPT ![t] = FALSE]
        /\ engCall' = [engCall EXCEPT ![t] = EngineCall(r.engine, engineOk)]
        /\ UNCHANGED <<sFileMap, nFiles, dbFile, dbPath>>
        /\ OnlyTxn

\* Transaction::Transaction(db) / Transaction(db, begin): set the state and call
\* beginTransaction.
NewTransaction(t, d, begin, engineOk) ==
    /\ pc[t] = "idle"
    /\ dbFile[d] # 0
    /\ begin \/ engineOk
    /\ BeginPass(t, d, IF begin THEN "kCommit" ELSE "kNoOp", engineOk, FALSE)
    /\ UNCHANGED delStage

\* _transactionCond.wait returned (notified or spuriously): test the slot again.
Resume(t, engineOk) ==
    /\ pc[t] = "woken"
    /\ (txState[t] = "kCommit") \/ engineOk
    /\ BeginPass(t, txDb[t], txState[t], engineOk, TRUE)
    /\ UNCHANGED delStage

\* A condition wait may return without a notification.
SpuriousWakeup(t) ==
    /\ pc[t] = "waiting"
    /\ pc' = [pc EXCEPT ![t] = "woken"]
    /\ waiters' = [waiters EXCEPT ![dbFile[txDb[t]]] = @ \ {t}]
    /\ UNCHANGED <<sFileMap, nFiles, dbFile, dbPath, fileTxn, txDb, txState, raised,
                   blocked, txBegan, txFailed, delStage, engCall>>
    /\ OnlyTxn

\* A guarded operation of t's Transaction fails: Transaction::check(status) with a
\* failing status, which raises the error.
CheckFailed(t) ==
    /\ pc[t] = "active"
    /\ delStage[t] = "no"
    /\ LET r == check(txState[t], FALSE)
       IN  /\ txState' = [txState EXCEPT ![t] = r.state]
           /\ raised' = [raised EXCEPT ![t] = IF r.raise THEN "check" ELSE @]
    /\ txFailed' = [txFailed EXCEPT ![t] = TRUE]
    /\ UNCHANGED <<sFileMap, nFiles, dbFile, dbPath, fileTxn, waiters, pc, txDb, blocked,
                   txBegan, delStage, engCall>>
    /\ OnlyTxn

\* Thread t's Transaction goes out of scope: endTransaction.  notify_one wakes one
\* waiter w, if any.  err is what t's operation raised apart from a commit error.
EndPass(t, commitOk, w, err) ==
    /\ LET f == dbFile[txDb[t]]
           r == endTransaction(fileTxn[f], t, txState[t], commitOk)
           woken == IF r.notify /\ waiters[f] # {} THEN {w} ELSE {}
       IN  /\ (waiters[f] # {} => w \in waiters[f])
           /\ (waiters[f] = {} => w = t)
           /\ fileTxn' = [fileTxn EXCEPT ![f] = r.transaction]
           /\ waiters' = [waiters EXCEPT ![f] = @ \ woken]
           /\ pc' = [u \in Threads |-> IF u = t THEN "idle"
                                       ELSE IF u \in woken THEN "woken" ELSE pc[u]]
           /\ raised' = [raised EXCEPT ![t] = IF r.raise THEN "commit" ELSE err]
           /\ engCall' = [engCall EXCEPT ![t] = EngineCall(r.engine, commitOk)]
    /\ txDb' = [txDb EXCEPT ![t] = 0]
    /\ txState' = [txState EXCEPT ![t] = "kNoOp"]
    /\ blocked' = [blocked EXCEPT ![t] = FALSE]
    /\ txBegan' = [txBegan EXCEPT ![t] = "kNoOp"]
    /\ txFailed' = [txFailed EXCEPT ![t] = FALSE]
    /\ UNCHANGED <<sFileMap, nFiles, dbFile, dbPath>>
    /\ OnlyTxn

\* Transaction::~Transaction of a Transaction the caller created.
EndTransaction(t, commitOk, w) ==
    /\ pc[t] = "active"
    /\ delStage[t] = "no"
    /\ (txState[t] # "kNoOp") \/ commitOk
    /\ EndPass(t, commitOk, w, "none")
    /\ UNCHANGED delStage

\* Database::deleteDatabase: Transaction t(this, false) asks for the slot.
DeleteDatabase(t, d) ==
    /\ pc[t] = "idle"
    /\ dbFile[d] # 0
    /\ BeginPass(t, d, "kNoOp", TRUE, FALSE)
    /\ delStage' = [delStage EXCEPT ![t] = "begun"]

\* The next engine call of deleteDatabase; when the function is left, by return or by
\* the error of a failed call, its Transaction ends.
DeleteStep(t, ok, andReopen, w) ==
    /\ pc[t] = "active"
    /\ delStage[t] # "no"
    /\ LET r == deleteDatabase(delStage[t], ok, andReopen)
       IN  /\ delStage' = [delStage EXCEPT ![t] = r.stage]
           /\ IF r.release
                THEN EndPass(t, TRUE, w, IF r.raise THEN "delete" ELSE "none")
                ELSE /\ w = t
                     /\ raised' = [raised EXCEPT ![t] = "none"]
                     /\ UNCHANGED <<sFileMap, nFiles, dbFile, dbPath, fileTxn, waiters, pc,
                                    txDb, txState, blocked, txBegan, txFailed, engCall>>
                     /\ OnlyTxn

NextTxn ==
    \/ \E d \in Dbs, path \in Paths : OpenDatabase(d, path)
    \/ \E t \in Threads, d \in Dbs, begin \in BOOLEAN, engineOk \in BOOLEAN :
          NewTransaction(t, d, begin, engineOk)
    \/ \E t \in Threads, engineOk \in BOOLEAN : Resume(t, engineOk)
    \/ \E t \in Threads : SpuriousWakeup(t)
    \/ \E t \in Threads : CheckFailed(t)
    \/ \E t \in Threads, commitOk \in BOOLEAN, w \in Threads : EndTransaction(t, commitOk, w)

\* deleteDatabase among Transactions of other threads.
NextDelete ==
    \/ \E d \in Dbs, path \in Paths : OpenDatabase(d, path)
    \/ \E t \in Threads, d \in Dbs, begin \in BOOLEAN, engineOk \in BOOLEAN :
          NewTransaction(t, d, begin, engineOk)
    \/ \E t \in Threads, engineOk \in BOOLEAN : Resume(t, engineOk)
    \/ \E t \in Threads : SpuriousWakeup(t)
    \/ \E t \in Threads, commitOk \in BOOLEAN, w \in Threads : EndTransaction(t, commitOk, w)
    \/ \E t \in Threads, d \in Dbs : DeleteDatabase(t, d)
    \/ \E t \in Threads, ok \in BOOLEAN, andReopen \in BOOLEAN, w \in Threads :
          DeleteStep(t, ok, andReopen, w)

--------------------------------------------------------------------------
(* The writers of one Database::File: _transactionCond and the slot *)

Writers == 1..NumWriters

NoStep == [t |-> 0, op |-> "none", outcome |-> "none", inSlot |-> FALSE]

InitWriters ==
    /\ wkPc = [t \in Writers |-> "idle"]
    /\ wkTransaction = 0
    /\ wkState = [t \in Writers |-> "kNoOp"]
    /\ wkStep = NoStep

ParkedWriters == InitWriters

\* One pass of beginTransaction by writer t under _transactionMutex.
SlotPass(t, state, engineOk) ==
    LET r == beginTransaction(wkTransaction, t, state, engineOk)
    IN  /\ wkTransaction' = r.transaction
        /\ wkPc' = [wkPc EXCEPT ![t] = CASE r.outcome = "wait"   -> "waiting"
                                          [] r.outcome = "throw"  -> "idle"
                                          [] r.outcome = "return" -> "active"]
        /\ wkState' = [wkState EXCEPT ![t] = IF r.outcome = "throw" THEN "kNoOp" ELSE state]
        /\ wkStep' = [t |-> t, op |-> "beginTransaction", outcome |-> r.outcome,
                      inSlot |-> (r.transaction = t)]
        /\ OnlyWriters

\* Transaction::Transaction(db) / Transaction(db, begin) by writer t.
SlotBegin(t, begin, engineOk) ==
    /\ wkPc[t] = "idle"
    /\ begin \/ engineOk
    /\ SlotPass(t, IF begin THEN "kCommit" ELSE "kNoOp", engineOk)

\* _transactionCond.wait returned in writer t: the loop tests the slot again.
SlotWake(t, engineOk) ==
    /\ wkPc[t] = "woken"
    /\ (wkState[t] = "kCommit") \/ engineOk
    /\ SlotPass(t, wkState[t], engineOk)

\* A condition wait may return without a notification.
SlotSpurious(t) ==
    /\ wkPc[t] = "waiting"
    /\ wkPc' = [wkPc EXCEPT ![t] = "woken"]
    /\ wkStep' = [t |-> t, op |-> "wait", outcome |-> "return", inSlot |-> FALSE]
    /\ UNCHANGED <<wkTransaction, wkState>>
    /\ OnlyWriters

\* Transaction::~Transaction of writer t: endTransaction; notify_one wakes one of the
\* threads that are in _transactionCond.wait, w, if there is any.
SlotEnd(t, commitOk, w) ==
    /\ wkPc[t] = "active"
    /\ (wkState[t] # "kNoOp") \/ commitOk
    /\ LET r == endTransaction(wkTransaction, t, wkState[t], commitOk)
           waiting == {u \in Writers : wkPc[u] = "waiting"}
           woken == IF r.notify /\ waiting # {} THEN {w} ELSE {}
       IN  /\ (waiting # {} => w \in waiting)
           /\ (waiting = {} => w = t)
           /\ wkTransaction' = r.transaction
           /\ wkPc' = [u \in Writers |-> IF u = t THEN "idle"
                                         ELSE IF u \in woken THEN "woken" ELSE wkPc[u]]
           /\ wkStep' = [t |-> t, op |-> "endTransaction",
                         outcome |-> IF r.raise THEN "throw" ELSE "return",
                         inSlot |-> (wkTransaction = t)]
    /\ wkState' = [wkState EXCEPT ![t] = "kNoOp"]
    /\ OnlyWriters

NextWriters ==
    \/ \E t \in Writers, begin \in BOOLEAN, engineOk \in BOOLEAN :
          SlotBegin(t, begin, engineOk)
    \/ \E t \in Writers, engineOk \in BOOLEAN : SlotWake(t, engineOk)
    \/ \E t \in Writers : SlotSpurious(t)
    \/ \E t \in Writers, commitOk \in BOOLEAN, w \in Writers : SlotEnd(t, commitOk, w)

\* Fair scheduling of the writers: a Transaction that began ends; a thread whose
\* wait returned runs; notify_one does not pass a waiting thread over for ever, and
\* a thread that again and again finds the slot free after its wait gets through.
WriterEnds(t) == \E commitOk \in BOOLEAN, w \in Writers : SlotEnd(t, commitOk, w)

WriterRuns(t) == \E engineOk \in BOOLEAN : SlotWake(t, engineOk)

WriterNotified(t) ==
    \E u \in Writers, commitOk \in BOOLEAN : SlotEnd(u, commitOk, t) /\ wkPc'[t] = "woken"

WriterLeaves(t) ==
    \E engineOk \in BOOLEAN : SlotWake(t, engineOk) /\ wkPc'[t] # "waiting"

FairWriters ==
    \A t \in Writers :
        /\ WF_vars(WriterEnds(t))
        /\ WF_vars(WriterRuns(t))
        /\ SF_vars(WriterNotified(t))
        /\ SF_vars(WriterLeaves(t))

--------------------------------------------------------------------------
(* Database::openKVS, closeKeyStore, deleteKeyStore (CBForest/Database.cc) *)

KvNames == {"a", "b"}

\* find() == end(): the map has no entry for the name.
NoEntry == -1

\* Database::openKVS.  ok: fdb_kvs_open succeeds; fresh: the handle it hands out.
\* opened: fdb_kvs_open was called and succeeded.
openKVS(handles, name, ok, fresh) ==
    IF handles[name] # NoEntry
      THEN [handles |-> handles, h |-> handles[name], opened |-> FALSE, err |-> "none"]
    ELSE IF ~ok
      THEN [handles |-> handles, h |-> 0, opened |-> FALSE, err |-> "ForestDB"]
    ELSE [handles |-> [handles EXCEPT ![name] = fresh], h |-> fresh, opened |-> TRUE,
          err |-> "none"]

\* Database::closeKeyStore.  _kvHandles[name] creates an entry holding NULL when
\* the name has none.  ok: fdb_kvs_close succeeds.  closed: the handle it closed.
closeKeyStore(handles, name, ok) ==
    LET found == IF handles[name] = NoEntry THEN [handles EXCEPT ![name] = 0]
                 ELSE handles
    IN  IF found[name] = 0
          THEN [handles |-> found, closed |-> 0, err |-> "none"]
        ELSE IF ~ok
          THEN [handles |-> found, closed |-> 0, err |-> "ForestDB"]
        ELSE [handles |-> [found EXCEPT ![name] = NoEntry], closed |-> found[name],
              err |-> "none"]

\* Database::deleteKeyStore: closeKeyStore, then fdb_kvs_remove.
deleteKeyStore(handles, name, okClose, okRemove) ==
    LET c == closeKeyStore(handles, name, okClose)
    IN  IF c.err # "none" THEN c
        ELSE IF ~okRemove THEN [c EXCEPT !.err = "ForestDB"]
        ELSE c

KvCall(op, name) == [op |-> op, name |-> name]

\* A Database that has opened no named key-store.
InitKvs ==
    /\ kvHandles = [n \in KvNames |-> NoEntry]
    /\ kvOpen = {}
    /\ kvOpens = 0
    /\ kvCall = KvCall("none", "a")
    /\ kvRet = [h |-> 0, err |-> "none"]
    /\ kvLast = [n \in KvNames |-> 0]
    /\ kvFile = TRUE
    /\ kvStale = {}

ParkedKvs == InitKvs

\* A caller calls openKVS(name).  fdb_kvs_open fails on a NULL file handle.
OpenKVS(name, ok) ==
    /\ kvOpens < MaxOpens
    /\ ok => kvFile
    /\ LET r == openKVS(kvHandles, name, ok, kvOpens + 1)
       IN  /\ kvHandles' = r.handles
           /\ kvOpen' = IF r.opened THEN kvOpen \cup {r.h} ELSE kvOpen
           /\ kvOpens' = IF r.opened THEN kvOpens + 1 ELSE kvOpens
           /\ kvRet' = [h |-> r.h, err |-> r.err]
           /\ kvLast' = IF r.err = "none" THEN [kvLast EXCEPT ![name] = r.h] ELSE kvLast
    /\ kvCall' = KvCall("openKVS", name)
    /\ UNCHANGED <<kvFile, kvStale>>
    /\ OnlyKvs

\* The engine state and the history after a close.
Closed(c, name) ==
    /\ kvHandles' = c.handles
    /\ kvOpen' = kvOpen \ {c.closed}
    /\ kvRet' = [h |-> 0, err |-> c.err]
    /\ kvLast' = IF c.err = "none" \/ c.closed # 0 THEN [kvLast EXCEPT ![name] = 0]
                  ELSE kvLast
    /\ UNCHANGED <<kvOpens, kvFile, kvStale>>

\* A caller calls closeKeyStore(name).
CloseKeyStore(name, ok) ==
    /\ Closed(closeKeyStore(kvHandles, name, ok), name)
    /\ kvCall' = KvCall("closeKeyStore", name)
    /\ OnlyKvs

\* A caller calls deleteKeyStore(name).
DeleteKeyStore(name, okClose, okRemove) ==
    /\ Closed(deleteKeyStore(kvHandles, name, okClose, okRemove), name)
    /\ kvCall' = KvCall("deleteKeyStore", name)
    /\ OnlyKvs

NextKvs ==
    \/ \E name \in KvNames, ok \in BOOLEAN : OpenKVS(name, ok)
    \/ \E name \in KvNames, ok \in BOOLEAN : CloseKeyStore(name, ok)
    \/ \E name \in KvNames, okClose \in BOOLEAN, okRemove \in BOOLEAN :
          DeleteKeyStore(name, okClose, okRemove)

\* Database::deleteDatabase, Database::deleted and Database::reopen as far as the
\* handles go.  fdb_close closes the file handle and with it every key-store handle
\* opened from it; deleted() sets _fileHandle and _handle to NULL; _kvHandles is not
\* touched.  closeOk, destroyOk, reopenOk: fdb_close, fdb_destroy, fdb_open succeed.
\* Result: [handles: _kvHandles, open: the handles open in the engine, file:
\* _fileHandle is not NULL, closedFile: fdb_close closed the file handle, err].
deleteDatabaseHandles(handles, open, file, closeOk, destroyOk, andReopen, reopenOk) ==
    IF ~file \/ ~closeOk
      THEN [handles |-> handles, open |-> open, file |-> file, closedFile |-> FALSE,
            err |-> "ForestDB"]
    ELSE IF ~destroyOk
      THEN [handles |-> handles, open |-> {}, file |-> FALSE, closedFile |-> TRUE,
            err |-> "ForestDB"]
    ELSE IF andReopen
      THEN [handles |-> handles, open |-> {}, file |-> reopenOk, closedFile |-> TRUE,
            err |-> IF reopenOk THEN "none" ELSE "ForestDB"]
    ELSE [handles |-> handles, open |-> {}, file |-> FALSE, closedFile |-> TRUE,
          err |-> "none"]

\* A caller calls deleteDatabase(andReopen).
KvsDeleteDatabase(closeOk, destroyOk, andReopen, reopenOk) ==
    /\ LET r == deleteDatabaseHandles(kvHandles, kvOpen, kvFile, closeOk, destroyOk,
                                      andReopen, reopenOk)
       IN  /\ kvHandles' = r.handles
           /\ kvOpen' = r.open
           /\ kvFile' = r.file
           /\ kvStale' = IF r.closedFile THEN 1..kvOpens ELSE kvStale
           /\ kvRet' = [h |-> 0, err |-> r.err]
    /\ kvCall' = KvCall(IF andReopen THEN "deleteDatabase(true)" ELSE "deleteDatabase(false)",
                        "a")
    /\ UNCHANGED <<kvOpens, kvLast>>
    /\ OnlyKvs

NextKvsDelete ==
    \/ \E name \in KvNames, ok \in BOOLEAN : OpenKVS(name, ok)
    \/ \E name \in KvNames, ok \in BOOLEAN : CloseKeyStore(name, ok)
    \/ \E name \in KvNames, okClose \in BOOLEAN, okRemove \in BOOLEAN :
          DeleteKeyStore(name, okClose, okRemove)
    \/ \E closeOk \in BOOLEAN, destroyOk \in BOOLEAN, andReopen \in BOOLEAN,
          reopenOk \in BOOLEAN :
          KvsDeleteDatabase(closeOk, destroyOk, andReopen, reopenOk)

--------------------------------------------------------------------------
(* DBActor::handleSetCheckpoint / handleGetCheckpoint (peer checkpoints) *)

\* Strings are sequences of characters.
DigitChars == <<"0", "1", "2", "3", "4", "5", "6", "7", "8", "9">>

IsDigit(c) == \E d \in 1..10 : DigitChars[d] = c

DigitValue(c) == (CHOOSE d \in 1..10 : DigitChars[d] = c) - 1

RECURSIVE Decimal(_)
\* sprintf("%lu", n)
Decimal(n) == IF n < 10 THEN <<DigitChars[n + 1]>>
              ELSE Decimal(n \div 10) \o <<DigitChars[(n % 10) + 1]>>

RECURSIVE strtolFrom(_, _, _)
\* strtol(buf, &end, 10) on a string of digits followed by other characters: the
\* value of the leading digits, 0 when there is none.
strtolFrom(str, i, acc) ==
    IF i <= Len(str) /\ IsDigit(str[i])
      THEN strtolFrom(str, i + 1, 10 * acc + DigitValue(str[i]))
      ELSE acc

strtol(str) == strtolFrom(str, 1, 0)

\* sprintf(newRevBuf, "%lu-cc", ++generation)
NewRev(generation) == Decimal(generation + 1) \o <<"-", "c", "c">>

Clients == {"c1", "c2"}

Bodies == {"b1", "b2"}

NoDoc == [present |-> FALSE, meta |-> <<>>, body |-> "b1"]

\* The rev properties of the requests: none, and the revisions of generations
\* 1..MaxGen.
Revs == {<<>>} \cup {NewRev(g) : g \in 0..(MaxGen - 1)}

\* A request: its "client" and "rev" properties ("none" / <<>> = no such property)
\* and its body.
Requests == [client : Clients \cup {"none"}, rev : Revs, body : Bodies]

\* What the storage calls made for one request return.  get: "ok" (the document,
\* or a NotFound error when there is none) or "error"; durable: whether a put made
\* without the handler's own transaction stays stored.
AllStorage == [beginOk : BOOLEAN, get : {"ok", "error"}, putOk : BOOLEAN,
               commitOk : BOOLEAN, durable : BOOLEAN]

\* An outcome that is never looked at is written as TRUE.
Storage ==
    {st \in AllStorage :
        /\ (st.get = "error") => st.putOk
        /\ ~st.putOk => st.commitOk
        /\ (st.beginOk \/ ~st.putOk) => st.durable}

\* handleGetCheckpoint only reads.
ReadStorage == {st \in Storage : st.beginOk /\ st.putOk /\ st.commitOk}

ReadRequests == {req \in Requests : req.rev = <<>> /\ req.body = "b1"}

\* respondWithError(domain, status)
ErrorResponse(status) == [status |-> status, rev |-> <<>>]

\* A response that carries a "rev" property.
RevResponse(rev) == [status |-> "ok", rev |-> rev]

\* DBActor::getPeerCheckpointDoc.  resp: the error it responded with, if any.
getPeerCheckpointDoc(store, req, getting, get) ==
    IF req.client = "none"
      THEN [ok |-> FALSE, doc |-> NoDoc, resp |-> <<ErrorResponse("400")>>]
    ELSE LET doc == IF get = "ok" THEN store[req.client] ELSE NoDoc
             status == IF get = "ok" THEN "404" ELSE "502"
         IN  IF ~doc.present /\ (getting \/ status # "404")
               THEN [ok |-> FALSE, doc |-> NoDoc, resp |-> <<ErrorResponse(status)>>]
               ELSE [ok |-> TRUE, doc |-> doc, resp |-> <<>>]

\* DBActor::handleGetCheckpoint
handleGetCheckpoint(store, req, get) ==
    LET g == getPeerCheckpointDoc(store, req, TRUE, get)
    IN  IF ~g.ok THEN g.resp ELSE <<RevResponse(g.doc.meta)>>

\* DBActor::handleSetCheckpoint.  A failed begin is answered with 502 and the
\* handler goes on.  The put is kept when the transaction commits; without a
\* transaction of the handler, when the storage keeps it.
handleSetCheckpoint(store, req, st) ==
    LET r0 == IF st.beginOk THEN <<>> ELSE <<ErrorResponse("502")>>
        g  == getPeerCheckpointDoc(store, req, FALSE, st.get)
        actualRev  == IF g.doc.present THEN g.doc.meta ELSE <<>>
        generation == IF g.doc.present THEN strtol(actualRev) ELSE 0
        rev  == NewRev(generation)
        kept == IF st.beginOk THEN st.putOk /\ st.commitOk ELSE st.putOk /\ st.durable
        put  == [store EXCEPT ![req.client] =
                    [present |-> TRUE, meta |-> rev, body |-> req.body]]
    IN  IF ~g.ok
          THEN [store |-> store, resp |-> r0 \o g.resp]
        ELSE IF req.rev # actualRev
          THEN [store |-> store, resp |-> r0 \o <<ErrorResponse("409")>>]
        ELSE IF ~(st.putOk /\ st.commitOk)
          THEN [store |-> IF kept THEN put ELSE store, resp |-> r0 \o <<ErrorResponse("502")>>]
        ELSE [store |-> IF kept THEN put ELSE store, resp |-> r0 \o <<RevResponse(rev)>>]

\* No peer has stored a checkpoint.
InitCp ==
    /\ cpStore = [c \in Clients |-> NoDoc]
    /\ cpCall = [op |-> "none", req |-> [client |-> "none", rev |-> <<>>, body |-> "b1"],
                 st |-> [beginOk |-> TRUE, get |-> "ok", putOk |-> TRUE,
                         commitOk |-> TRUE, durable |-> TRUE]]
    /\ cpResp = <<>>

ParkedCp == InitCp

\* The generation stored for the request's client.
StoredGeneration(req) ==
    IF req.client # "none" /\ cpStore[req.client].present
      THEN strtol(cpStore[req.client].meta) ELSE 0

\* A "setCheckpoint" request arrives.
SetCheckpoint(req, st) ==
    /\ StoredGeneration(req) < MaxGen
    /\ LET r == handleSetCheckpoint(cpStore, req, st)
       IN  /\ cpStore' = r.store
           /\ cpResp' = r.resp
    /\ cpCall' = [op |-> "setCheckpoint", req |-> req, st |-> st]
    /\ OnlyCp

\* A "getCheckpoint" request arrives.
GetCheckpoint(req, st) ==
    /\ cpResp' = handleGetCheckpoint(cpStore, req, st.get)
    /\ cpCall' = [op |-> "getCheckpoint", req |-> req, st |-> st]
    /\ UNCHANGED cpStore
    /\ OnlyCp

NextCp ==
    \/ \E req \in Requests, st \in Storage : SetCheckpoint(req, st)
    \/ \E req \in ReadRequests, st \in ReadStorage : GetCheckpoint(req, st)

--------------------------------------------------------------------------
(* BothEnumeratorImpl: the merged enumerator over the live and the dead store *)

MergeKeys == 1..NumMergeKeys

Row(k, q, deleted) == [key |-> k, seq |-> q, deleted |-> deleted]

\* What reading through a null _current may produce.
GarbageRow == [key |-> 0, seq |-> 0, deleted |-> FALSE]

\* Sort criterion of a row: its sequence or its key.
SortValue(r, bySequence) == IF bySequence THEN r.seq ELSE r.key

\* The rows of set S in the order of a physical store's enumerator.
RECURSIVE SortRows(_, _, _)
SortRows(S, bySequence, descending) ==
    IF S = {} THEN <<>>
    ELSE LET first == CHOOSE x \in S : \A y \in S :
                         IF descending
                           THEN SortValue(x, bySequence) >= SortValue(y, bySequence)
                           ELSE SortValue(x, bySequence) <= SortValue(y, bySequence)
         IN  <<first>> \o SortRows(S \ {first}, bySequence, descending)

\* KeyStore::newEnumeratorImpl(bySequence, since, options) of one physical store
\* holding the rows S: sorted as asked; by sequence, only the rows after since.
ChildRows(S, opts) ==
    SortRows({r \in S : /\ opts.bySequence => r.seq > opts.since
                         /\ (opts.includeDeleted \/ ~r.deleted)},
             opts.bySequence, opts.sortOption = "kDescending")

\* compare(a, b) of BothKeyStore.cc, and slice::compare on keys.
compare(a, b) == IF a < b THEN -1 ELSE IF a > b THEN 1 ELSE 0

\* A child cursor's next(): step to the following row; false past the last one, and
\* the owner then resets (drops) the pointer.
ChildNext(c, rows) ==
    IF c.pos < Len(rows) THEN [alive |-> TRUE, pos |-> c.pos + 1]
                         ELSE [alive |-> FALSE, pos |-> c.pos]

\* The new _cmp of BothEnumeratorImpl::next once the children have been advanced
\* (0 when both are exhausted).
MergeCmp(lv, dd, opts) ==
    LET c == IF lv.alive /\ dd.alive
               THEN compare(SortValue(mLiveRows[lv.pos], opts.bySequence),
                            SortValue(mDeadRows[dd.pos], opts.bySequence))
             ELSE IF lv.alive THEN -1
             ELSE IF dd.alive THEN 1
             ELSE 0
    IN  IF (lv.alive \/ dd.alive) /\ opts.sortOption = "kDescending" THEN -c ELSE c

\* Mutant: on a tie the dead child is picked.
PickCurrent_deadOnTie(c) == IF c < 0 THEN "live" ELSE "dead"

\* _current = ((_cmp <= 0) ? _liveImpl : _deadImpl).get()
PickCurrent(c) == IF c <= 0 THEN "live" ELSE "dead"

\* The rows a merged enumerator is created over: disjoint keys, distinct sequences.
MergeContents ==
    {c \in [MergeKeys -> [store : {"none", "live", "dead"}, seq : 1..MaxMergeSeq]] :
        /\ \A k \in MergeKeys : c[k].store = "none" => c[k].seq = 1
        /\ \A k1, k2 \in MergeKeys :
              (k1 # k2 /\ c[k1].store # "none" /\ c[k2].store # "none")
                  => c[k1].seq # c[k2].seq}

StoreRows(c, s) == {Row(k, c[k].seq, s = "dead") : k \in {x \in MergeKeys : c[x].store = s}}

MergeOptions ==
    [bySequence : BOOLEAN, since : 0..MaxSince,
     sortOption : {"kAscending", "kDescending"}, includeDeleted : {TRUE}]

NewChild == [alive |-> TRUE, pos |-> 0]

\* BothEnumeratorImpl::BothEnumeratorImpl over some contents and options.
InitMerge ==
    /\ mOpts \in MergeOptions
    /\ mImpl = "both"
    /\ mAsked = mOpts
    /\ \E c \in MergeContents :
          /\ mLiveRows = ChildRows(StoreRows(c, "live"), mOpts)
          /\ mDeadRows = ChildRows(StoreRows(c, "dead"), mOpts)
    /\ mLive = NewChild
    /\ mDead = NewChild
    /\ mCmp = 0
    /\ mCurrent = "null"
    /\ mRet = "none"
    /\ mOut = <<>>
    /\ mPast = FALSE

\* No merged enumerator in use.
ParkedMerge ==
    /\ mOpts = [bySequence |-> FALSE, since |-> 0, sortOption |-> "kAscending",
                includeDeleted |-> TRUE]
    /\ mImpl = "both"
    /\ mAsked = mOpts
    /\ mLiveRows = <<>>
    /\ mDeadRows = <<>>
    /\ mLive = NewChild
    /\ mDead = NewChild
    /\ mCmp = 0
    /\ mCurrent = "null"
    /\ mRet = "none"
    /\ mOut = <<>>
    /\ mPast = FALSE

\* BothEnumeratorImpl::next followed by the caller's read of the current record.
\* Calling through a null child pointer, or reading through a null _current, is
\* undefined: the process crashes, or it goes on (the child counts as exhausted, the
\* read yields garbage, after which nothing more is said about the enumerator).
\* crashes chooses between the two.
MergeNext(crashes) ==
    /\ mImpl = "both"
    /\ mRet \in {"none", "true", "false"}
    /\ LET nullCall == (mCmp <= 0 /\ ~mLive.alive) \/ (mCmp >= 0 /\ ~mDead.alive)
           lv == IF mCmp <= 0 /\ mLive.alive THEN ChildNext(mLive, mLiveRows) ELSE mLive
           dd == IF mCmp >= 0 /\ mDead.alive THEN ChildNext(mDead, mDeadRows) ELSE mDead
           c  == MergeCmp(lv, dd, mOpts)
           cur == IF ~(lv.alive \/ dd.alive) THEN "null"
                  ELSE PickCurrent(c)
           nullRead == (lv.alive \/ dd.alive)
                         /\ ((cur = "live" /\ ~lv.alive) \/ (cur = "dead" /\ ~dd.alive))
       IN  /\ crashes => (nullCall \/ nullRead)
           /\ IF crashes
                THEN /\ mRet' = "crash"
                     /\ UNCHANGED <<mLive, mDead, mCmp, mCurrent, mOut>>
                ELSE /\ mLive' = lv
                     /\ mDead' = dd
                     /\ mCmp' = c
                     /\ mCurrent' = IF nullRead THEN "null" ELSE cur
                     /\ mRet' = IF nullRead THEN "garbage"
                                ELSE IF lv.alive \/ dd.alive THEN "true" ELSE "false"
                     /\ mOut' = IF ~(lv.alive \/ dd.alive) THEN mOut
                                ELSE IF nullRead THEN Append(mOut, GarbageRow)
                                ELSE IF cur = "live" THEN Append(mOut, mLiveRows[lv.pos])
                                ELSE Append(mOut, mDeadRows[dd.pos])
    /\ mPast' = (mPast \/ mRet = "false")
    /\ UNCHANGED <<mLiveRows, mDeadRows, mOpts, mImpl, mAsked>>
    /\ OnlyMerge

NextMerge == \E crashes \in BOOLEAN : MergeNext(crashes)

\* Mutant: a BothEnumeratorImpl is built whatever includeDeleted says.
newEnumeratorImpl_alwaysBoth(options) ==
    [impl |-> "both",
     options |-> [options EXCEPT !.sortOption = IF @ = "kUnsorted" THEN "kAscending"
                                                ELSE @,
                                 !.includeDeleted = TRUE]]

\* BothKeyStore::newEnumeratorImpl(bySequence, since, options): which enumerator is
\* built, and the options its sub-store enumerators are created with.
newEnumeratorImpl(options) ==
    IF options.includeDeleted
      THEN [impl |-> "both",
            options |-> [options EXCEPT !.sortOption = IF @ = "kUnsorted"
                                                         THEN "kAscending" ELSE @]]
      ELSE [impl |-> "live", options |-> [options EXCEPT !.includeDeleted = TRUE]]

\* What a caller may ask of BothKeyStore::newEnumeratorImpl.
AskedOptions ==
    [bySequence : BOOLEAN, since : 0..MaxSince,
     sortOption : {"kUnsorted", "kAscending", "kDescending"}, includeDeleted : BOOLEAN]

\* The two stores a BothKeyStore is built on may both hold a key.  The live record
\* of key k has sequence 2k - 1, the dead one 2k: one allocator, distinct sequences.
BothContents == [MergeKeys -> {"none", "live", "dead", "both"}]

BothRows(c, s) ==
    {Row(k, IF s = "live" THEN 2 * k - 1 ELSE 2 * k, s = "dead") :
        k \in {x \in MergeKeys : c[x] \in {s, "both"}}}

\* BothKeyStore::newEnumeratorImpl over some contents and options.  mDeadRows is
\* what an enumerator of the dead store yields, also when none is created.
InitBothEnum ==
    /\ mAsked \in AskedOptions
    /\ mImpl = newEnumeratorImpl(mAsked).impl
    /\ mOpts = newEnumeratorImpl(mAsked).options
    /\ \E c \in BothContents :
          /\ mLiveRows = ChildRows(BothRows(c, "live"), mOpts)
          /\ mDeadRows = ChildRows(BothRows(c, "dead"), mOpts)
    /\ mLive = NewChild
    /\ mDead = IF mImpl = "both" THEN NewChild ELSE [alive |-> FALSE, pos |-> 0]
    /\ mCmp = 0
    /\ mCurrent = "null"
    /\ mRet = "none"
    /\ mOut = <<>>
    /\ mPast = FALSE

\* next() of the live store's own enumerator, followed by the caller's read.
LiveNext ==
    /\ mImpl = "live"
    /\ mRet \in {"none", "true"}
    /\ LET lv == ChildNext(mLive, mLiveRows)
       IN  /\ mLive' = lv
           /\ mRet' = IF lv.alive THEN "true" ELSE "false"
           /\ mOut' = IF lv.alive THEN Append(mOut, mLiveRows[lv.pos]) ELSE mOut
           /\ mCurrent' = IF lv.alive THEN "live" ELSE "null"
    /\ UNCHANGED <<mLiveRows, mDeadRows, mOpts, mDead, mCmp, mPast, mImpl, mAsked>>
    /\ OnlyMerge

NextBothEnum ==
    \/ \E crashes \in BOOLEAN : MergeNext(crashes)
    \/ LiveNext

--------------------------------------------------------------------------
(* SQLiteQueryEnumerator and its recordings (LiteCore/Query/SQLiteQuery.cc) *)

\* Number of rows to encode at a time.
kPageSize == 50

\* A result row as the statement reads it: its index in the result and the version of
\* the data it was read from (0 = the data the enumerator was created on).
ResultRow(i, ver) == [idx |-> i, ver |-> ver]

\* SQLiteQueryPlayback: a recording of rows, two array items per row (the columns and
\* the missing-columns bitmap), and an iterator into it.  present = FALSE is nullptr.
NoRecording == [present |-> FALSE, firstRow |-> 0, rows |-> <<>>, iter |-> 0]

Playback(firstRow, rows) == [present |-> TRUE, firstRow |-> firstRow, rows |-> rows, iter |-> 0]

\* Items of the recorded array.
RecordingCount(r) == 2 * Len(r.rows)

\* SQLiteQueryPlayback::next: _iter += 2; return !!_iter.
PlaybackNext(r) == [r EXCEPT !.iter = IF @ + 2 <= RecordingCount(r) THEN @ + 2 ELSE @]

PlaybackValid(r) == r.iter < RecordingCount(r)

\* The row the playback's iterator is on (columns() / missingColumns()).
PlaybackRow(r) == r.rows[(r.iter \div 2) + 1]

\* SQLiteQueryPlayback::seek: whether rowIndex is a row of the recording, and the
\* recording with its iterator on that row.
PlaybackSeekOk(r, rowIndex) ==
    /\ rowIndex - r.firstRow >= 0
    /\ 2 * (rowIndex - r.firstRow) < RecordingCount(r)

PlaybackSeek(r, rowIndex) == [r EXCEPT !.iter = 2 * (rowIndex - r.firstRow)]

\* Rows the statement can still step through.
StmtAvail(table, stmt) == IF table.len > stmt.pos THEN table.len - stmt.pos ELSE 0

\* Mutant: firstRow is read from _rowCount after the rows have been encoded.
recordRows_firstRowAfter(has, table, stmt, rowCount, unlimited, maxRows) ==
    IF ~has
      THEN [rec |-> NoRecording, stmt |-> stmt, rowCount |-> rowCount, has |-> FALSE,
            atEnd |-> FALSE]
    ELSE LET avail == StmtAvail(table, stmt)
             n     == IF unlimited \/ avail < maxRows THEN avail ELSE maxRows
             atEnd == unlimited \/ avail < maxRows
             rows  == [i \in 1..n |-> ResultRow(stmt.pos + i - 1, table.ver)]
         IN  [rec |-> IF n = 0 THEN NoRecording ELSE Playback(rowCount + n, rows),
              stmt |-> IF atEnd THEN [pos |-> 0] ELSE [pos |-> stmt.pos + n],
              rowCount |-> rowCount + n,
              has |-> ~atEnd,
              atEnd |-> atEnd]

\* recordRows(maxRows) with encodeRows and stepStatement; unlimited = INT64_MAX.
\* Gives the recording (nullptr if there is no statement or no row), the statement
\* position, _rowCount, whether _statement is still set, and whether the end of the
\* result was reached (stepStatement then resets and releases the statement and calls
\* endObservingTransaction).
recordRows(has, table, stmt, rowCount, unlimited, maxRows) ==
    IF ~has
      THEN [rec |-> NoRecording, stmt |-> stmt, rowCount |-> rowCount, has |-> FALSE,
            atEnd |-> FALSE]
    ELSE LET avail == StmtAvail(table, stmt)
             n     == IF unlimited \/ avail < maxRows THEN avail ELSE maxRows
             atEnd == unlimited \/ avail < maxRows
             rows  == [i \in 1..n |-> ResultRow(stmt.pos + i - 1, table.ver)]
         IN  [rec |-> IF n = 0 THEN NoRecording ELSE Playback(rowCount, rows),
              stmt |-> IF atEnd THEN [pos |-> 0] ELSE [pos |-> stmt.pos + n],
              rowCount |-> rowCount + n,
              has |-> ~atEnd,
              atEnd |-> atEnd]

\* The enumerator's fields as one record, for the operations below.
Enum == [has |-> eHasStmt, rowCount |-> eRowCount, curRow |-> eCurRow, cur |-> eCur,
         next |-> eNext, old |-> eOld, observing |-> eObserving, stmt |-> qStmt,
         observers |-> qObservers, err |-> "none"]

\* What recordRows changes in the enumerator, including endObservingTransaction.
AfterRecord(e, r) ==
    [e EXCEPT !.has = r.has, !.rowCount = r.rowCount, !.stmt = r.stmt,
              !.observing = IF r.atEnd THEN FALSE ELSE @,
              !.observers = IF r.atEnd /\ e.observing THEN FALSE ELSE @]

\* SQLiteQueryEnumerator::fastForward: record all remaining rows as _nextEnumerator.
fastForward(e, table) ==
    IF ~e.has THEN e
    ELSE IF e.next.present THEN [e EXCEPT !.err = "AssertionFailed"]
    ELSE LET r == recordRows(e.has, table, e.stmt, e.rowCount, TRUE, 0)
         IN  [AfterRecord(e, r) EXCEPT !.next = r.rec]

\* Mutant: the notification only clears the flag and records nothing.
preTransaction_noRecord(e, table) == [e EXCEPT !.observing = FALSE]

\* SQLiteQueryEnumerator::preTransaction.
preTransaction(e, table) == fastForward([e EXCEPT !.observing = FALSE], table)

\* SQLiteQueryEnumerator::next.  The result's err is "none" and its cur is the new
\* _curEnumerator: next() returns true iff it is present.
next(e, oneShot, table) ==
    IF e.cur.present /\ PlaybackValid(PlaybackNext(e.cur))
      THEN [e EXCEPT !.cur = PlaybackNext(e.cur), !.curRow = @ + 1]
    ELSE IF e.next.present
      THEN [e EXCEPT !.cur = e.next, !.next = NoRecording, !.curRow = @ + 1]
    ELSE LET stepped == IF e.cur.present THEN PlaybackNext(e.cur) ELSE e.cur
             r  == recordRows(e.has, table, e.stmt, e.rowCount, FALSE, kPageSize)
             e1 == [AfterRecord(e, r) EXCEPT
                       !.old = IF oneShot THEN @ ELSE stepped,
                       !.cur = r.rec]
         IN  [e1 EXCEPT !.curRow = IF r.rec.present THEN @ + 1 ELSE @]

\* Mutant: a seek that finds no row to record is not an error.
seekForward_lenient(e, table, rowIndex) ==
    LET need  == IF rowIndex > e.rowCount THEN rowIndex - e.rowCount ELSE 0
        avail == StmtAvail(table, e.stmt)
        e0    == [e EXCEPT !.cur = NoRecording]
    IN  IF ~e.has
          THEN [e0 EXCEPT !.curRow = rowIndex]
        ELSE IF need > avail
          THEN [AfterRecord(e0, [has |-> FALSE, rowCount |-> e.rowCount + avail,
                                 stmt |-> [pos |-> 0], atEnd |-> TRUE])
                  EXCEPT !.curRow = rowIndex]
        ELSE LET e1 == [e0 EXCEPT !.stmt = [pos |-> e.stmt.pos + need],
                                  !.rowCount = e.rowCount + need]
                 r  == recordRows(TRUE, table, e1.stmt, e1.rowCount, FALSE, kPageSize)
                 e2 == AfterRecord(e1, r)
             IN  [e2 EXCEPT !.cur = r.rec, !.curRow = rowIndex]

\* SQLiteQueryEnumerator::seek, forward past the end of _curEnumerator when there is
\* no _nextEnumerator: drop the current recording, step the statement until
\* _rowCount reaches rowIndex, then record a page.
seekForward(e, table, rowIndex) ==
    LET need  == IF rowIndex > e.rowCount THEN rowIndex - e.rowCount ELSE 0
        avail == StmtAvail(table, e.stmt)
        e0    == [e EXCEPT !.cur = NoRecording]
    IN  IF ~e.has
          THEN [e0 EXCEPT !.err = "InvalidParameter"]
        ELSE IF need > avail
          THEN \* stepStatement reaches the end of the result
               [AfterRecord(e0, [has |-> FALSE, rowCount |-> e.rowCount + avail,
                                 stmt |-> [pos |-> 0], atEnd |-> TRUE])
                  EXCEPT !.err = "InvalidParameter"]
        ELSE LET e1 == [e0 EXCEPT !.stmt = [pos |-> e.stmt.pos + need],
                                  !.rowCount = e.rowCount + need]
                 r  == recordRows(TRUE, table, e1.stmt, e1.rowCount, FALSE, kPageSize)
                 e2 == AfterRecord(e1, r)
             IN  IF r.rec.present
                   THEN [e2 EXCEPT !.cur = r.rec, !.curRow = rowIndex]
                   ELSE [e2 EXCEPT !.err = "InvalidParameter"]

\* SQLiteQueryEnumerator::seek.  err is "none" when it returns.
seek(e, table, rowIndex) ==
    IF rowIndex = e.curRow
      THEN e
    ELSE IF e.cur.present /\ PlaybackSeekOk(e.cur, rowIndex)
      THEN [e EXCEPT !.cur = PlaybackSeek(e.cur, rowIndex), !.curRow = rowIndex]
    ELSE IF rowIndex < e.curRow
      THEN IF e.cur.present /\ rowIndex + 1 = e.cur.firstRow
             THEN [e EXCEPT !.next = PlaybackSeek(e.cur, e.cur.firstRow),
                            !.cur = NoRecording, !.curRow = rowIndex]
             ELSE [e EXCEPT !.err = "UnsupportedOperation"]
    ELSE IF e.next.present
      THEN IF PlaybackSeekOk(e.next, rowIndex)
             THEN [e EXCEPT !.cur = PlaybackSeek(e.next, rowIndex), !.next = NoRecording,
                            !.curRow = rowIndex]
             ELSE [e EXCEPT !.err = "InvalidParameter"]
    ELSE seekForward(e, table, rowIndex)

\* Mutant: the count is taken from the current position.
getRowCount_position(e, table) == [enum |-> fastForward(e, table), count |-> e.curRow + 1]

\* SQLiteQueryEnumerator::getRowCount: fastForward, then _rowCount.
getRowCount(e, table) ==
    LET e1 == fastForward(e, table)
    IN  [enum |-> e1, count |-> e1.rowCount]

\* The enumerator's fields after an operation.
SetEnum(e) ==
    /\ eHasStmt' = e.has
    /\ eRowCount' = e.rowCount
    /\ eCurRow' = e.curRow
    /\ eCur' = e.cur
    /\ eNext' = e.next
    /\ eOld' = e.old
    /\ eObserving' = e.observing
    /\ qStmt' = e.stmt
    /\ qObservers' = e.observers

\* The enumerator as its constructor leaves it: a one-shot enumerator registers as a
\* pre-transaction observer, any other one fast-forwards.
NewEnum(oneShot, table) ==
    LET e0 == [has |-> TRUE, rowCount |-> 0, curRow |-> -1, cur |-> NoRecording,
               next |-> NoRecording, old |-> NoRecording, observing |-> FALSE,
               stmt |-> [pos |-> 0], observers |-> FALSE, err |-> "none"]
    IN  IF oneShot THEN [e0 EXCEPT !.observing = TRUE, !.observers = TRUE]
                   ELSE fastForward(e0, table)

\* SQLiteQuery::createEnumerator(options, lastSeq): nullptr ("null") if the key-store's
\* lastSequence (curSeq) is still the one given.
createEnumerator(lastSequence, curSeq) ==
    IF lastSequence > 0 /\ lastSequence = curSeq THEN "null" ELSE "new"

\* The recording hasEqualContents compares for an enumerator: current, else next,
\* else (on the receiver only) old.  Absent = a null pointer.
ContentsOf(e, withOld) ==
    IF e.cur.present THEN e.cur
    ELSE IF e.next.present THEN e.next
    ELSE IF withOld THEN e.old
    ELSE NoRecording

\* SQLiteQueryEnumerator::refresh.  ret is "new" (a new enumerator is returned),
\* "null", "raise" (err says what) or "undefined": hasEqualContents went through a
\* null recording pointer.  The field lastSeq is _lastSequence afterwards.
refresh(e, oneShot, lastSequence, table, curSeq) ==
    IF oneShot
      THEN [ret |-> "raise", err |-> "UnsupportedOperation", lastSeq |-> lastSequence]
    ELSE IF createEnumerator(lastSequence, curSeq) = "null"
      THEN [ret |-> "null", err |-> "none", lastSeq |-> lastSequence]
    ELSE LET newEnum == NewEnum(FALSE, table)
             e1 == ContentsOf(e, TRUE)
             e2 == ContentsOf(newEnum, FALSE)
         IN  IF ~e1.present \/ ~e2.present
               THEN [ret |-> "undefined", err |-> "none", lastSeq |-> lastSequence]
             ELSE IF e1.rows # e2.rows
               THEN [ret |-> "new", err |-> "none", lastSeq |-> lastSequence]
             ELSE [ret |-> "null", err |-> "none", lastSeq |-> curSeq]

Call(op, arg, count) == [op |-> op, arg |-> arg, count |-> count]

NoOp == Call("none", 0, 0)

\* The rows seek is called with: every row of a short result and the rows around
\* the first page boundary, with the row before the first and rows past the last.
SeekTargets == (-1..(MaxSeekRows + 1)) \cup ((kPageSize - 2)..(kPageSize + 2))

\* Sizes of the results the enumerators are created over: short ones, and one that
\* is longer than a page.
EnumSizes == (0..MaxSeekRows) \cup {kPageSize + 1}

\* A query with a result of qN rows, qN one of sizes, and an enumerator just created
\* on it by createEnumerator(options, 0).  With lastSequence 0 nothing has been
\* written yet, and the result has at most the one row of an aggregate.
InitQueryOver(sizes) ==
    /\ qN \in sizes
    /\ qLastSeq \in {0, 1}
    /\ qLastSeq = 0 => qN <= 1
    /\ eLastSeq = qLastSeq
    /\ eCall = NoOp
    /\ qTable = [len |-> qN, ver |-> 0]
    /\ qWriter = FALSE
    /\ eOneShot \in BOOLEAN
    /\ LET e == NewEnum(eOneShot, qTable)
       IN  /\ eHasStmt = e.has
           /\ eRowCount = e.rowCount
           /\ eCurRow = e.curRow
           /\ eCur = e.cur
           /\ eNext = e.next
           /\ eOld = e.old
           /\ eObserving = e.observing
           /\ qStmt = e.stmt
           /\ qObservers = e.observers
    /\ eRet = "none"
    /\ eYield = <<>>

InitQuery == InitQueryOver(0..MaxRows)

\* A long result is read by a one-shot enumerator.
InitEnum == InitQueryOver(EnumSizes) /\ (qN > MaxSeekRows => eOneShot)

\* No query in use.
ParkedQuery ==
    /\ qN = 0
    /\ qTable = [len |-> 0, ver |-> 0]
    /\ qWriter = FALSE
    /\ qObservers = FALSE
    /\ qStmt = [pos |-> 0]
    /\ eOneShot = FALSE
    /\ eHasStmt = FALSE
    /\ eRowCount = 0
    /\ eCurRow = -1
    /\ eCur = NoRecording
    /\ eNext = NoRecording
    /\ eOld = NoRecording
    /\ eObserving = FALSE
    /\ eRet = "none"
    /\ eYield = <<>>
    /\ qLastSeq = 0
    /\ eLastSeq = 0
    /\ eCall = NoOp

\* The process is running (an undefined operation may have ended it).
Running == eRet # "crash"

\* The caller calls next() and, if it returned true, reads the current row.
EnumNext ==
    /\ Running
    /\ LET e == next(Enum, eOneShot, qTable)
       IN  /\ SetEnum(e)
           /\ eRet' = IF e.cur.present THEN "true" ELSE "false"
           /\ eYield' = IF e.cur.present /\ Len(eYield) = eCurRow + 1
                          THEN Append(eYield, PlaybackRow(e.cur))
                          ELSE eYield
    /\ eCall' = Call("next", 0, 0)
    /\ UNCHANGED <<qN, qTable, qWriter, eOneShot, qLastSeq, eLastSeq>>
    /\ OnlyQuery

\* The caller calls seek(rowIndex).
Seek(rowIndex) ==
    /\ Running
    /\ rowIndex <= qN + 1
    /\ LET e == seek(Enum, qTable, rowIndex)
       IN  /\ SetEnum(e)
           /\ eRet' = IF e.err = "none" THEN "ok" ELSE e.err
    /\ eCall' = Call("seek", rowIndex, 0)
    /\ eYield' = <<>>
    /\ UNCHANGED <<qN, qTable, qWriter, eOneShot, qLastSeq, eLastSeq>>
    /\ OnlyQuery

\* The caller calls getRowCount().
GetRowCount ==
    /\ Running
    /\ LET r == getRowCount(Enum, qTable)
       IN  /\ SetEnum(r.enum)
           /\ eRet' = IF r.enum.err = "none" THEN "ok" ELSE r.enum.err
           /\ eCall' = Call("getRowCount", 0, IF r.enum.err = "none" THEN r.count ELSE 0)
    /\ UNCHANGED <<qN, qTable, qWriter, eOneShot, qLastSeq, eLastSeq, eYield>>
    /\ OnlyQuery

\* The caller calls refresh().  Going through a null pointer is undefined: the
\* process crashes, or the comparison reads garbage and refresh returns either way.
Refresh(undef) ==
    /\ Running
    /\ LET r == refresh(Enum, eOneShot, eLastSeq, qTable, qLastSeq)
       IN  /\ eRet' = CASE r.ret = "raise"     -> r.err
                         [] r.ret = "undefined" -> undef
                         [] OTHER               -> r.ret
           /\ eLastSeq' = IF r.ret = "undefined" /\ undef = "null" THEN qLastSeq
                          ELSE r.lastSeq
           /\ (r.ret # "undefined") => undef = "crash"
    /\ eCall' = Call("refresh", 0, 0)
    /\ UNCHANGED <<qN, qTable, qWriter, qObservers, qStmt, eOneShot, eHasStmt, eRowCount,
                   eCurRow, eCur, eNext, eOld, eObserving, eYield, qLastSeq>>
    /\ OnlyQuery

\* A writer begins a transaction on the data file: every registered pre-transaction
\* observer is notified first and the observer list is cleared; then the writer has
\* the file.  An error raised by an observer ends the attempt.
WriterBegin ==
    /\ Running
    /\ ~qWriter
    /\ LET e == IF qObservers THEN preTransaction(Enum, qTable) ELSE Enum
       IN  /\ SetEnum([e EXCEPT !.observers = (e.err # "none" /\ qObservers)])
           /\ eRet' = IF e.err = "none" THEN eRet ELSE e.err
           /\ qWriter' = (e.err = "none")
    /\ eCall' = Call("writer", 0, 0)
    /\ UNCHANGED <<qN, qTable, eOneShot, eYield, qLastSeq, eLastSeq>>
    /\ OnlyQuery

\* The writer changes the data the query reads: every row now reads differently, and
\* the result may have one row less or more.
WriterChange(len) ==
    /\ Running
    /\ qWriter
    /\ qTable.ver < MaxWrites
    /\ len >= 0
    /\ qTable' = [len |-> len, ver |-> qTable.ver + 1]
    /\ qLastSeq' = qLastSeq + 1
    /\ eCall' = Call("writer", 0, 0)
    /\ UNCHANGED <<qN, qWriter, qObservers, qStmt, eOneShot, eHasStmt, eRowCount, eCurRow,
                   eCur, eNext, eOld, eObserving, eRet, eYield, eLastSeq>>
    /\ OnlyQuery

\* The writer writes a document the query does not select: the result stays as it
\* is, lastSequence moves on.
WriterTouch ==
    /\ Running
    /\ qWriter
    /\ qLastSeq <= MaxWrites
    /\ qLastSeq' = qLastSeq + 1
    /\ eCall' = Call("writer", 0, 0)
    /\ UNCHANGED <<qN, qTable, qWriter, qObservers, qStmt, eOneShot, eHasStmt, eRowCount,
                   eCurRow, eCur, eNext, eOld, eObserving, eRet, eYield, eLastSeq>>
    /\ OnlyQuery

\* The writer's transaction ends.
WriterEnd ==
    /\ Running
    /\ qWriter
    /\ qWriter' = FALSE
    /\ eCall' = Call("writer", 0, 0)
    /\ UNCHANGED <<qN, qTable, qObservers, qStmt, eOneShot, eHasStmt, eRowCount, eCurRow,
                   eCur, eNext, eOld, eObserving, eRet, eYield, qLastSeq, eLastSeq>>
    /\ OnlyQuery

NextQuery ==
    \/ EnumNext
    \/ WriterBegin
    \/ \E d \in {-1, 0, 1} : WriterChange(qTable.len + d)
    \/ WriterEnd

\* Every operation of the enumerator, with a writer at work.
NextEnum ==
    \/ EnumNext
    \/ \E rowIndex \in SeekTargets : Seek(rowIndex)
    \/ GetRowCount
    \/ \E undef \in {"crash", "null", "new"} : Refresh(undef)
    \/ WriterBegin
    \/ \E d \in {-1, 0, 1} : WriterChange(qTable.len + d)
    \/ WriterTouch
    \/ WriterEnd

--------------------------------------------------------------------------
(* Enumerators of one SQLiteQuery: they share SQLiteQuery::_statement *)

\* The enumerators of the query: a first and a second one.
EnumIds == {1, 2}

\* options.paramBindings of an enumerator: 0 = none given, else the value bound.
ParamValues == {0, 1}

\* Result sizes: a few rows, and one row more than a page.
SharedSizes == (1..MaxSharedRows) \cup {kPageSize + 1}

\* What the shared statement reads now: the rows of the result under its bindings.
SharedTable == [len |-> shN, ver |-> shStmt.bound]

\* No enumerator in slot k.
NoEnum ==
    [life |-> "none", oneShot |-> FALSE, param |-> 0,
     e |-> [has |-> FALSE, rowCount |-> 0, curRow |-> -1, cur |-> NoRecording,
            next |-> NoRecording, old |-> NoRecording, observing |-> FALSE,
            stmt |-> [pos |-> 0], observers |-> FALSE, err |-> "none"],
     yield |-> <<>>, ret |-> "none"]

\* SQLiteQueryEnumerator::SQLiteQueryEnumerator on the query's statement as it is:
\* _statement(query->statement()), clearBindings, bindParameters (sqlite3_bind on a
\* statement that was stepped and not reset fails with SQLITE_MISUSE, which
\* bindParameters rethrows), then observe (one-shot) or fastForward.
\* Result: [e, bound, err], e.stmt the statement's position afterwards.
SQLiteQueryEnumerator(oneShot, param, n, stmt) ==
    LET e0 == [has |-> TRUE, rowCount |-> 0, curRow |-> -1, cur |-> NoRecording,
               next |-> NoRecording, old |-> NoRecording, observing |-> FALSE,
               stmt |-> [pos |-> stmt.pos], observers |-> FALSE, err |-> "none"]
    IN  IF param # 0 /\ stmt.pos > 0
          THEN [e |-> [e0 EXCEPT !.has = FALSE], bound |-> 0, err |-> "SQLiteException"]
          ELSE [e |-> IF oneShot THEN [e0 EXCEPT !.observing = TRUE, !.observers = TRUE]
                                 ELSE fastForward(e0, [len |-> n, ver |-> param]),
                bound |-> param, err |-> "none"]

\* SQLiteQueryEnumerator::~SQLiteQueryEnumerator: the position of the query's
\* statement afterwards ('if (_statement) _statement->reset()').
DestroyEnumerator(e) == IF e.has THEN [pos |-> 0] ELSE e.stmt

InitShared ==
    /\ shN \in SharedSizes
    /\ shStmt = [pos |-> 0, bound |-> 0]
    /\ shEnum = [k \in EnumIds |-> NoEnum]
    /\ shCall = [op |-> "none", k |-> 0]

\* No query with several enumerators in use.
ParkedShared ==
    /\ shN = 0
    /\ shStmt = [pos |-> 0, bound |-> 0]
    /\ shEnum = [k \in EnumIds |-> NoEnum]
    /\ shCall = [op |-> "none", k |-> 0]

\* query->createEnumerator(options) for slot k.
SharedCreate(k, oneShot, param) ==
    /\ shEnum[k].life = "none"
    /\ LET r == SQLiteQueryEnumerator(oneShot, param, shN, shStmt)
       IN  /\ shStmt' = [pos |-> r.e.stmt.pos, bound |-> r.bound]
           /\ shEnum' = [shEnum EXCEPT ![k] =
                  [life |-> IF r.err = "none" THEN "live" ELSE "failed",
                   oneShot |-> oneShot, param |-> param, e |-> r.e, yield |-> <<>>,
                   ret |-> r.err]]
    /\ shCall' = [op |-> "create", k |-> k]
    /\ UNCHANGED shN
    /\ OnlyShared

\* The caller calls next() on enumerator k and, if it returned true, reads the row.
SharedNext(k) ==
    /\ shEnum[k].life = "live"
    /\ shEnum[k].ret # "false"
    /\ LET e == next([shEnum[k].e EXCEPT !.stmt = [pos |-> shStmt.pos]],
                     shEnum[k].oneShot, SharedTable)
       IN  /\ shStmt' = [shStmt EXCEPT !.pos = e.stmt.pos]
           /\ shEnum' = [shEnum EXCEPT ![k] =
                  [@ EXCEPT !.e = e,
                            !.ret = IF e.cur.present THEN "true" ELSE "false",
                            !.yield = IF e.cur.present
                                        THEN Append(@, PlaybackRow(e.cur)) ELSE @]]
    /\ shCall' = [op |-> "next", k |-> k]
    /\ UNCHANGED shN
    /\ OnlyShared

\* Enumerator k is destroyed.
SharedDestroy(k) ==
    /\ shEnum[k].life = "live"
    /\ shStmt' = [shStmt EXCEPT !.pos =
                     DestroyEnumerator([shEnum[k].e EXCEPT !.stmt = [pos |-> shStmt.pos]]).pos]
    /\ shEnum' = [shEnum EXCEPT ![k] = [NoEnum EXCEPT !.life = "gone"]]
    /\ shCall' = [op |-> "destroy", k |-> k]
    /\ UNCHANGED shN
    /\ OnlyShared

NextShared ==
    \/ \E k \in EnumIds, oneShot \in BOOLEAN, param \in ParamValues :
          SharedCreate(k, oneShot, param)
    \/ \E k \in EnumIds : SharedNext(k)
    \/ \E k \in EnumIds : SharedDestroy(k)

--------------------------------------------------------------------------
(* SQLiteQueryEnumerator::encodeRow / encodeColumn (LiteCore/Query/SQLiteQuery.cc) *)

\* Width of int, the type of the literal 1 in '1 << i'.
IntBits == 32

\* Width of uint64_t missingCols.
BitmapBits == 64

ColumnTypes == {"SQLITE_INTEGER", "SQLITE_FLOAT", "SQLITE_TEXT", "SQLITE_BLOB"}

\* A shift of an int by IntBits or more is undefined; builds differ in what it gives.
Builds == {"masked", "zero", "wide"}

\* An int converted to uint64_t: a negative value (bit IntBits - 1 set) is sign-extended.
ToUInt64(bits) ==
    IF (IntBits - 1) \in bits THEN bits \cup ((IntBits - 1)..(BitmapBits - 1)) ELSE bits

\* (1 << i) as the operand of 'missingCols |=', for i < 64.  The shift is done in
\* int.  For i >= IntBits it is undefined: the count is taken modulo IntBits
\* ("masked"), or the result is 0 ("zero"), or the shift is done in 64 bits ("wide").
ShiftedOne(i, build) ==
    IF i < IntBits THEN ToUInt64({i})
    ELSE IF build = "masked" THEN ToUInt64({i % IntBits})
    ELSE IF build = "zero" THEN {}
    ELSE {i}

\* encodeColumn(enc, i): "missing" (false) for SQL NULL, an error for a blob that is
\* not valid Fleece, else "written" (true).
encodeColumn(nulls, type, valid, i) ==
    IF i \in nulls THEN "missing"
    ELSE IF type = "SQLITE_BLOB" /\ ~valid THEN "CorruptRevisionData"
    ELSE "written"

\* encodeRow(enc): what it raises and the bitmap written after the row's array.  The
\* loop runs over the columns in order, stops at the first one that raises, and ORs
\* (1 << i) into missingCols for every missing column i < 64.
encodeRow(nCols, nulls, type, valid, build) ==
    LET cols == 0..(nCols - 1)
        col(i) == encodeColumn(nulls, type, valid, i)
    IN  IF \E i \in cols : col(i) = "CorruptRevisionData"
          THEN [raised |-> "CorruptRevisionData", missingCols |-> {}]
          ELSE [raised |-> "none",
                missingCols |->
                    UNION {ShiftedOne(i, build) :
                             i \in {x \in cols : col(x) = "missing" /\ x < BitmapBits}}]

RECURSIVE ColumnSets(_, _)
\* The sets of at most k of the columns 0..(n - 1).
ColumnSets(n, k) ==
    IF n = 0 \/ k = 0 THEN {{}}
    ELSE ColumnSets(n - 1, k) \cup {S \cup {n - 1} : S \in ColumnSets(n - 1, k - 1)}

\* The statement is on a row of MaxCols columns, at most MaxNullCols of them NULL.
InitRow ==
    /\ rNulls \in ColumnSets(MaxCols, MaxNullCols)
    /\ rType \in ColumnTypes
    /\ rValid \in BOOLEAN
    /\ (~rValid) => (rType = "SQLITE_BLOB" /\ Cardinality(rNulls) < MaxCols)
    /\ rBuild \in Builds
    /\ rDone = "no"
    /\ rMissing = {}

\* No row is being encoded.
ParkedRow ==
    /\ rNulls = {}
    /\ rType = "SQLITE_INTEGER"
    /\ rValid = TRUE
    /\ rBuild = "masked"
    /\ rDone = "no"
    /\ rMissing = {}

EncodeRow ==
    /\ rDone = "no"
    /\ LET r == encodeRow(MaxCols, rNulls, rType, rValid, rBuild)
       IN  /\ rDone' = IF r.raised = "none" THEN "encoded" ELSE r.raised
           /\ rMissing' = IF r.raised = "none" THEN r.missingCols ELSE rMissing
    /\ UNCHANGED <<rNulls, rType, rValid, rBuild>>
    /\ OnlyRow

NextRow == EncodeRow

--------------------------------------------------------------------------
(* DBActor::dbChanged: the database observer's changes go to the pusher *)

\* static const uint32_t kMaxChanges = 100
kMaxChanges == 100

\* How many changes one transaction commits.
WriteSizes == {1, kMaxChanges}

\* The changes of sequences from + 1 .. from + n, in sequence order.
ChangesAfter(from, n) == [i \in 1..n |-> from + i]

\* c4dbobs_getChanges(observer, outChanges, maxChanges, &external): the oldest
\* changes the observer has not handed out yet, at most maxChanges of them.
c4dbobs_getChanges(seen, last, maxChanges) ==
    LET n == Min(last - seen, maxChanges)
    IN  [nChanges |-> n, c4changes |-> ChangesAfter(seen, n), seen |-> seen + n]

RECURSIVE dbChangedFrom(_, _, _, _)
\* The while loop of DBActor::dbChanged.  changes is the vector<Rev> declared before
\* the loop; got is what _pusher->gotChanges has been given so far.
dbChangedFrom(seen, last, changes, got) ==
    LET r == c4dbobs_getChanges(seen, last, kMaxChanges)
        more == changes \o r.c4changes
    IN  IF r.nChanges = 0
          THEN [seen |-> seen, got |-> got]
          ELSE dbChangedFrom(r.seen, last, more, got \o more)

\* DBActor::dbChanged
dbChanged(seen, last) == dbChangedFrom(seen, last, <<>>, <<>>)

InitChanges ==
    /\ dbLastSeq = 0
    /\ obsSeen = 0
    /\ pusherGot = <<>>
    /\ dcCall = [op |-> "none", from |-> 0, to |-> 0]

ParkedChanges == InitChanges

\* A transaction commits n changes: the observer's callback enqueues dbChanged.
DbWrite(n) ==
    /\ dbLastSeq + n <= MaxChangeSeq
    /\ dbLastSeq' = dbLastSeq + n
    /\ dcCall' = [op |-> "commit", from |-> dbLastSeq, to |-> dbLastSeq + n]
    /\ UNCHANGED <<obsSeen, pusherGot>>
    /\ OnlyChanges

\* The actor runs an enqueued dbChanged.
DbChanged ==
    /\ dbLastSeq > 0
    /\ LET r == dbChanged(obsSeen, dbLastSeq)
       IN  /\ obsSeen' = r.seen
           /\ pusherGot' = r.got
    /\ dcCall' = [op |-> "dbChanged", from |-> obsSeen, to |-> dbLastSeq]
    /\ UNCHANGED dbLastSeq
    /\ OnlyChanges

NextChanges ==
    \/ \E n \in WriteSizes : DbWrite(n)
    \/ DbChanged

--------------------------------------------------------------------------
(* Specifications: one per subsystem, the others idle at their initial state *)

Init == InitBKS /\ InitTxn /\ ParkedMerge /\ ParkedQuery /\ ParkedExp /\ ParkedKvs /\ ParkedCp /\ ParkedRow /\ ParkedShared /\ ParkedWriters /\ ParkedChanges

InitOfMerge == InitBKS /\ InitTxn /\ InitMerge /\ ParkedQuery /\ ParkedExp /\ ParkedKvs /\ ParkedCp /\ ParkedRow /\ ParkedShared /\ ParkedWriters /\ ParkedChanges

InitOfBothEnum == InitBKS /\ InitTxn /\ InitBothEnum /\ ParkedQuery /\ ParkedExp /\ ParkedKvs /\ ParkedCp /\ ParkedRow /\ ParkedShared /\ ParkedWriters /\ ParkedChanges

InitOfQuery == InitBKS /\ InitTxn /\ ParkedMerge /\ InitQuery /\ ParkedExp /\ ParkedKvs /\ ParkedCp /\ ParkedRow /\ ParkedShared /\ ParkedWriters /\ ParkedChanges

InitOfEnum == InitBKS /\ InitTxn /\ ParkedMerge /\ InitEnum /\ ParkedExp /\ ParkedKvs /\ ParkedCp /\ ParkedRow /\ ParkedShared /\ ParkedWriters /\ ParkedChanges

InitOfExp == InitBKS /\ InitTxn /\ ParkedMerge /\ ParkedQuery /\ InitExp /\ ParkedKvs /\ ParkedCp /\ ParkedRow /\ ParkedShared /\ ParkedWriters /\ ParkedChanges

InitOfShared == InitBKS /\ InitTxn /\ ParkedMerge /\ ParkedQuery /\ ParkedExp /\ ParkedKvs /\ ParkedCp /\ ParkedRow /\ InitShared /\ ParkedWriters /\ ParkedChanges

InitOfRow == InitBKS /\ InitTxn /\ ParkedMerge /\ ParkedQuery /\ ParkedExp /\ ParkedKvs /\ ParkedCp /\ InitRow /\ ParkedShared /\ ParkedWriters /\ ParkedChanges

Next == NextBKS

Spec == Init /\ [][Next]_vars

SpecTxn == Init /\ [][NextTxn]_vars

SpecDelete == Init /\ [][NextDelete]_vars

SpecMerge == InitOfMerge /\ [][NextMerge]_vars

SpecBothEnum == InitOfBothEnum /\ [][NextBothEnum]_vars

SpecQuery == InitOfQuery /\ [][NextQuery]_vars

SpecEnum == InitOfEnum /\ [][NextEnum]_vars

SpecExp == InitOfExp /\ [][NextExp]_vars

SpecKvs == Init /\ [][NextKvs]_vars

SpecKvsDelete == Init /\ [][NextKvsDelete]_vars

SpecCp == Init /\ [][NextCp]_vars

SpecRow == InitOfRow /\ [][NextRow]_vars

SpecShared == InitOfShared /\ [][NextShared]_vars

SpecChanges == Init /\ [][NextChanges]_vars

SpecWriters == Init /\ [][NextWriters]_vars

SpecWritersFair == Init /\ [][NextWriters]_vars /\ FairWriters

--------------------------------------------------------------------------
(* Claims about BothKeyStore::set, checked under Spec *)

InStore(r, s, k) == r[s][k].seq > 0

IsSet == call.op = "set"

Returned == IsSet /\ ret.err = "none"

Unchanged == recs = pre.recs /\ lastSeq = pre.last

\* C1: after any sequence of BothKeyStore::set calls, starting with no key in both
\* sub-stores, no key is present in both the live and the dead sub-store.
C1_AtMostOneStore ==
    \A k \in Keys : ~(InStore(recs, "live", k) /\ InStore(recs, "dead", k))

\* C1 witness: a set call has moved a key from one sub-store to the other.
C1_Witness ==
    /\ IsSet /\ ret.seq > 0
    /\ InStore(pre.recs, Other(call.deleted), call.key)
    /\ InStore(recs, Target(call.deleted), call.key)

\* C6: an unconditional set that succeeds leaves the key in the target sub-store
\* (dead iff Deleted) with the returned sequence and the given flags, and leaves no
\* record of the key in the other sub-store.
C6_OverwriteMoves ==
    (Returned /\ ~call.mvcc /\ ret.seq > 0) =>
        /\ recs[IF call.deleted THEN "dead" ELSE "live"][call.key]
              = [seq |-> ret.seq, deleted |-> call.deleted]
        /\ recs[IF call.deleted THEN "live" ELSE "dead"][call.key] = NoRec

\* C6 witness: set(k, Deleted) was followed by set(k, not Deleted): k was dead before
\* the unconditional call and is live with the call's sequence after it.
C6_Witness ==
    /\ Returned /\ ~call.mvcc /\ ~call.deleted
    /\ InStore(pre.recs, "dead", call.key)
    /\ recs["live"][call.key].seq = ret.seq /\ ret.seq > 0

\* C7: an MVCC update (replacingSequence = s > 0, newSequence = true) issued while
\* the key is in the other sub-store with sequence s returns a newly allocated
\* sequence, leaves the key in the target with that sequence and removes it from the
\* other; if the key is in the other sub-store with another sequence, or in neither,
\* the call returns 0 and changes nothing.
C7_CrossStoreUpdate ==
    (IsSet /\ call.mvcc /\ call.rs > 0 /\ call.newSequence) =>
        LET target == Target(call.deleted)
            other  == Other(call.deleted)
            k      == call.key
        IN  /\ pre.recs[other][k].seq = call.rs =>
                  /\ ret.err = "none"
                  /\ ret.seq > 0
                  /\ \A s \in StoreNames : ret.seq > pre.last[s]
                  /\ recs[target][k].seq = ret.seq
                  /\ recs[other][k] = NoRec
            /\ (\/ (InStore(pre.recs, other, k) /\ pre.recs[other][k].seq # call.rs)
                \/ (~InStore(pre.recs, other, k) /\ ~InStore(pre.recs, target, k))) =>
                  /\ ret.err = "none"
                  /\ ret.seq = 0
                  /\ Unchanged

\* C7 witness: an MVCC update found the key in the other sub-store with the expected
\* sequence and moved it.
C7_Witness ==
    /\ IsSet /\ call.mvcc /\ call.rs > 0 /\ call.newSequence
    /\ pre.recs[Other(call.deleted)][call.key].seq = call.rs
    /\ ret.seq > 0
    /\ recs[Target(call.deleted)][call.key].seq = ret.seq

\* C8: an MVCC insert (replacingSequence = 0) returns 0 and changes nothing whenever
\* the key exists in either sub-store, and inserts with a non-zero sequence only when
\* the key is in neither.
C8_InsertNeedsAbsent ==
    (IsSet /\ call.mvcc /\ call.rs = 0) =>
        LET k == call.key
            existed == InStore(pre.recs, "live", k) \/ InStore(pre.recs, "dead", k)
        IN  /\ ret.err = "none"
            /\ existed => (ret.seq = 0 /\ Unchanged)
            /\ ~existed => (ret.seq > 0 /\ recs[Target(call.deleted)][k].seq = ret.seq)

\* C8 witness: an MVCC insert was refused because the key exists only in the
\* sub-store opposite to the one the Deleted flag selects.
C8_Witness ==
    /\ IsSet /\ call.mvcc /\ call.rs = 0
    /\ InStore(pre.recs, Other(call.deleted), call.key)
    /\ ~InStore(pre.recs, Target(call.deleted), call.key)
    /\ ret.seq = 0

\* C9: when an MVCC update (replacingSequence > 0) is rejected by the target
\* sub-store and newSequence is false, set returns 0 as an ordinary result and neither
\* sub-store is modified.
C9_ConflictStands ==
    (/\ IsSet /\ call.mvcc /\ call.rs > 0 /\ ~call.newSequence
     /\ pre.recs[Target(call.deleted)][call.key].seq # call.rs) =>
        /\ ret.err = "none"
        /\ ret.seq = 0
        /\ Unchanged

Allocates == ~(call.mvcc /\ call.rs > 0 /\ ~call.newSequence)

\* C10: every sequence returned by a successful set that allocates one is greater
\* than every sequence handed out earlier through either sub-store, and no two
\* records across live and dead carry the same sequence.
C10_SharedSequences ==
    /\ (Returned /\ ret.seq > 0 /\ Allocates) =>
          /\ \A s \in StoreNames : ret.seq > pre.last[s]
          /\ \A s \in StoreNames, k \in Keys : ret.seq > pre.recs[s][k].seq
    /\ \A s1, s2 \in StoreNames, k1, k2 \in Keys :
          (InStore(recs, s1, k1) /\ InStore(recs, s2, k2) /\ <<s1, k1>> # <<s2, k2>>)
              => recs[s1][k1].seq # recs[s2][k2].seq

\* C10 witness: a sequence was allocated for a record of the dead sub-store while the
\* live sub-store holds a record with an earlier sequence.
C10_Witness ==
    /\ Returned /\ call.deleted /\ ret.seq > 0 /\ Allocates
    /\ \E k \in Keys : InStore(recs, "live", k) /\ recs["live"][k].seq < ret.seq
    /\ recs["dead"][call.key].seq = ret.seq

KeysIn(s) == {k \in Keys : InStore(recs, s, k)}

\* C11: after any sequence of BothKeyStore::set calls, recordCount(false) is the
\* number of keys in the live sub-store and recordCount(true) is recordCount(false)
\* plus the number of records in the dead sub-store.
C11_RecordCount ==
    LET st == StoreState(recs, lastSeq)
    IN  /\ BothKeyStore_recordCount(st, FALSE) = Cardinality(KeysIn("live"))
        /\ BothKeyStore_recordCount(st, TRUE)
              = BothKeyStore_recordCount(st, FALSE) + Cardinality(KeysIn("dead"))

\* C11 witness: set calls have left a record in each sub-store, so the two counts
\* differ.
C11_Witness ==
    /\ IsSet
    /\ KeysIn("live") # {} /\ KeysIn("dead") # {}
    /\ BothKeyStore_recordCount(StoreState(recs, lastSeq), TRUE) = NumKeys
    /\ BothKeyStore_recordCount(StoreState(recs, lastSeq), FALSE) < NumKeys

--------------------------------------------------------------------------
(* Claims about BothKeyStore::nextExpiration, checked under SpecExp *)

\* C12: nextExpiration returns 0 iff both sub-stores report 0, and otherwise the
\* smallest non-zero value among the two sub-stores' results.
C12_NextExpiration ==
    xRet # -1 =>
        /\ (xRet = 0) <=> (xLive = 0 /\ xDead = 0)
        /\ xRet # 0 =>
              /\ xRet \in ({xLive, xDead} \ {0})
              /\ \A x \in ({xLive, xDead} \ {0}) : xRet <= x

\* C12 witness: one sub-store reports no expiration, the other a positive one, and
\* the positive one is returned.
C12_Witness ==
    /\ xLive = 0 /\ xDead > 0
    /\ xRet = xDead

--------------------------------------------------------------------------
(* Claims about the transaction slot, checked under SpecTxn *)

Active(t) == pc[t] = "active"

\* C2: at most one Transaction at a time has begun and not yet ended on the File of a
\* path, whichever Database instances opened on that path the threads go through.
C2_OneTransactionPerFile ==
    \A t1, t2 \in Threads :
        (t1 # t2 /\ Active(t1) /\ Active(t2)) => dbPath[txDb[t1]] # dbPath[txDb[t2]]

\* C2 witness: two Database instances are open on one path, a thread holds a
\* Transaction through one of them and another thread is blocked in beginTransaction
\* through the other.
C2_Witness ==
    \E t1, t2 \in Threads :
        /\ Active(t1) /\ pc[t2] = "waiting"
        /\ txDb[t1] # txDb[t2]
        /\ dbPath[txDb[t1]] = dbPath[txDb[t2]]

\* C3: every endTransaction, whatever the Transaction's state and whether or not the
\* engine commit failed, clears File.transaction and wakes one waiter if there is one;
\* a commit error is raised with the slot already released.
C3_EndAlwaysReleases ==
    [][\A t \in Threads :
          (Active(t) /\ ~Active(t)') =>
              LET f == dbFile[txDb[t]]
              IN  /\ fileTxn'[f] = 0
                  /\ (waiters[f] # {} =>
                        \E w \in waiters[f] : pc'[w] = "woken" /\ w \notin waiters'[f])]_vars

\* C3 witness: a thread that was blocked in beginTransaction holds the slot after the
\* other thread's commit failed.
C3_Witness ==
    \E t1, t2 \in Threads :
        /\ t1 # t2
        /\ pc[t1] = "idle" /\ raised[t1] = "commit"
        /\ Active(t2) /\ blocked[t2]
        /\ fileTxn[dbFile[txDb[t2]]] = t2

Ends(t) == Active(t) /\ ~Active(t)'

\* C19: a failing Transaction::check makes the state kAbort as it raises the error,
\* and the state stays kAbort: when the Transaction ends, the engine transaction is
\* aborted and not committed.  A Transaction no guarded operation of which failed ends
\* in the state it was constructed with (kCommit, or kNoOp when begin = false).
C19_FailedCheckAborts ==
    [][\A t \in Threads :
          /\ (Active(t) /\ txFailed'[t] /\ ~Ends(t)) =>
                (txState'[t] = "kAbort" /\ raised'[t] = "check")
          /\ (Ends(t) /\ txFailed[t]) =>
                /\ txState[t] = "kAbort"
                /\ EngineEnd(txState[t]) = "fdb_abort_transaction"
                /\ raised'[t] # "commit"
          /\ (Ends(t) /\ ~txFailed[t]) =>
                /\ txState[t] = txBegan[t]
                /\ txState[t] \in {"kCommit", "kNoOp"}]_vars

\* C19 witness: a Transaction constructed with begin = true holds the slot after one
\* of its guarded operations failed.
C19_Witness ==
    \E t \in Threads :
        /\ Active(t) /\ txFailed[t] /\ raised[t] = "check"
        /\ txBegan[t] = "kCommit" /\ txState[t] = "kAbort"

InDelete(t) == Active(t) /\ delStage[t] # "no"

\* C20: from the moment deleteDatabase's Transaction has the slot until the function
\* is left, it is a kNoOp Transaction in the File's slot and no other Transaction
\* begins on that File; the slot is released when deleteDatabase returns and when
\* close, destroy or reopen fails.
C20_DeleteHoldsSlot ==
    [][\A t \in Threads :
          LET f == dbFile[txDb[t]]
          IN  /\ InDelete(t) => (fileTxn[f] = t /\ txState[t] = "kNoOp")
              /\ InDelete(t) =>
                    \A u \in Threads \ {t} : Active(u)' => dbFile[txDb'[u]] # f
              /\ (InDelete(t) /\ ~InDelete(t)') =>
                    (fileTxn'[f] = 0 /\ pc'[t] = "idle")]_vars

\* C20 witness: deleteDatabase was left by the error of a failed engine call, and a
\* thread that was blocked in beginTransaction on the File meanwhile now has the slot.
C20_Witness ==
    \E t, u \in Threads :
        /\ t # u
        /\ pc[t] = "idle" /\ raised[t] = "delete"
        /\ Active(u) /\ blocked[u]

--------------------------------------------------------------------------
(* Claims about the merged enumerator, checked under SpecMerge *)

RowsOf(q) == {q[i] : i \in 1..Len(q)}

IsPrefix(p, q) == Len(p) <= Len(q) /\ \A i \in 1..Len(p) : p[i] = q[i]

\* Every record of both sub-stores, once, in the requested order.
MergeExpected ==
    SortRows(RowsOf(mLiveRows) \cup RowsOf(mDeadRows), mOpts.bySequence,
             mOpts.sortOption = "kDescending")

\* C4: a merged enumerator iterated with next() until it returns false yields every
\* record of both sub-stores exactly once, in the requested order (ascending or
\* descending, by key or by sequence), also when one sub-store is exhausted first.
C4_MergeYieldsAllInOrder ==
    ~mPast =>
        /\ mRet \in {"none", "true", "false"}
        /\ IsPrefix(mOut, MergeExpected)
        /\ mRet = "false" => mOut = MergeExpected

\* C29: the merged enumerator never uses a child cursor it has dropped: next() never
\* calls into a dropped child and never leaves a dropped child as the current
\* cursor (no call or read through a null pointer), whenever next() has returned
\* true the current cursor is a child that is not exhausted, and next() called
\* again after it returned false returns false.
C29_NeverUsesDroppedChild ==
    /\ mRet \notin {"crash", "garbage"}
    /\ mRet = "true" =>
          \/ mCurrent = "live" /\ mLive.alive
          \/ mCurrent = "dead" /\ mDead.alive
    /\ mPast => mRet = "false"

--------------------------------------------------------------------------
(* Claims about BothKeyStore::newEnumeratorImpl, checked under SpecBothEnum *)

KeysOf(q) == {q[i].key : i \in 1..Len(q)}

\* The merged enumerator has returned true with both children on the same key.
OnTie ==
    /\ mImpl = "both" /\ ~mOpts.bySequence
    /\ mRet = "true"
    /\ mLive.alive /\ mDead.alive
    /\ mLiveRows[mLive.pos].key = mDeadRows[mDead.pos].key

\* C26: when the live and the dead child of a merged enumerator are on the same key,
\* the live record is the one exposed, and the following next() advances both
\* children; the dead record with that key is never yielded and no key is yielded
\* twice.
C26_TieLiveWins ==
    [][/\ OnTie =>
            /\ mCurrent = "live"
            /\ mOut[Len(mOut)] = mLiveRows[mLive.pos]
            /\ mRet' # "crash" =>
                  /\ mLive' = ChildNext(mLive, mLiveRows)
                  /\ mDead' = ChildNext(mDead, mDeadRows)
       /\ (mImpl = "both" /\ ~mOpts.bySequence) =>
            /\ \A i \in 1..Len(mOut') :
                  ~(mOut'[i].deleted /\ mOut'[i].key \in KeysOf(mLiveRows))
            /\ \A i, j \in 1..Len(mOut') :
                  (i # j /\ mOut'[i] # GarbageRow) => mOut'[i].key # mOut'[j].key
      ]_vars

\* C26 witness: a merged enumeration by key has finished over stores that share a
\* key, with other keys before and after it.
C26_Witness ==
    /\ mImpl = "both" /\ ~mOpts.bySequence
    /\ mRet = "false"
    /\ \E i \in 1..Len(mLiveRows) : \E j \in 1..Len(mDeadRows) :
          mLiveRows[i].key = mDeadRows[j].key
    /\ Len(mOut) >= 2
    /\ Len(mOut) < Len(mLiveRows) + Len(mDeadRows)

\* What an ascending merge of the two stores yields: every live record, and every
\* dead record that does not tie with a live one.
AscendingMerge ==
    SortRows(RowsOf(mLiveRows)
               \cup {d \in RowsOf(mDeadRows) :
                        mOpts.bySequence \/ d.key \notin KeysOf(mLiveRows)},
             mOpts.bySequence, FALSE)

\* C27: asked without deleted records, newEnumeratorImpl hands out the live store's
\* own enumerator (created with includeDeleted = true), which yields exactly the live
\* store's records and none of the dead store; asked with deleted records and no
\* order, it merges the two stores in ascending order.
C27_NewEnumeratorImpl ==
    /\ ~mAsked.includeDeleted =>
          /\ mImpl = "live" /\ mOpts.includeDeleted
          /\ Len(mOut) <= Len(mLiveRows)
          /\ \A i \in 1..Len(mOut) : mOut[i] = mLiveRows[i] /\ ~mOut[i].deleted
          /\ RowsOf(mOut) \cap RowsOf(mDeadRows) = {}
          /\ mRet = "false" => Len(mOut) = Len(mLiveRows)
    /\ (mAsked.includeDeleted /\ mAsked.sortOption = "kUnsorted") =>
          /\ mImpl = "both" /\ mOpts.sortOption = "kAscending"
          /\ IsPrefix(mOut, AscendingMerge)
          /\ mRet = "false" => mOut = AscendingMerge

\* C27 witness: an enumeration asked without deleted records has finished with
\* records yielded while the dead store holds records too.
C27_Witness ==
    /\ ~mAsked.includeDeleted /\ mRet = "false"
    /\ Len(mOut) >= 2 /\ Len(mDeadRows) >= 1

\* C27 witness of the second case: an unsorted request for all records has finished
\* after yielding records of both stores.
C27_WitnessUnsorted ==
    /\ mAsked.includeDeleted /\ mAsked.sortOption = "kUnsorted" /\ mRet = "false"
    /\ \E i, j \in 1..Len(mOut) : mOut[i].deleted /\ ~mOut[j].deleted

--------------------------------------------------------------------------
(* Claims about the query enumerator, checked under SpecQuery *)

\* C5: when a writer's transaction begins while a one-shot enumerator is part-way
\* through its result, the pre-transaction notification records every row not yet
\* read from the statement before the writer proceeds (the statement is released with
\* all qN rows read), and next() goes on to yield the rows of the original result in
\* order, each once, whatever the writer changes.
C5_OneShotSurvivesWriter ==
    eOneShot =>
        /\ qWriter => (~eHasStmt /\ eRowCount = qN)
        /\ \A i \in 1..Len(eYield) : eYield[i] = ResultRow(i - 1, 0)
        /\ eRet = "false" => Len(eYield) = qN

\* C5 witness: the writer began after the first page had been recorded, the rest of
\* the result (more than a page) was recorded in one piece by the notification, the
\* writer changed the data and the result's size, and next() has now yielded the last
\* row of the original result from that recording.
C5_Witness ==
    /\ eOneShot /\ eRet = "true"
    /\ eCur.present /\ eCur.firstRow = kPageSize /\ Len(eCur.rows) > kPageSize
    /\ qTable.ver > 0 /\ qTable.len # qN
    /\ Len(eYield) = qN
    /\ eYield[qN] = ResultRow(qN - 1, 0)

\* C24: iterating a one-shot enumerator over qN rows with next() alone returns true
\* qN times and then false, visiting rows 0..qN-1 in statement order with _curRow the
\* index of the row visited; every recording made by next() holds at most kPageSize
\* rows, and its firstRow is the number of rows read from the statement before it.
C24_OneShotPaging ==
    [][(eOneShot /\ eCall'.op = "next") =>
          /\ eRet' = IF eCurRow + 1 < qN THEN "true" ELSE "false"
          /\ (eRet' = "true") =>
                /\ eCurRow' = eCurRow + 1
                /\ eCur'.present
                /\ PlaybackRow(eCur') = ResultRow(eCurRow', 0)
          /\ (eRet' = "false") => eCurRow' = eCurRow
          /\ (eRowCount' # eRowCount) =>
                /\ eCur'.present
                /\ Len(eCur'.rows) <= kPageSize
                /\ Len(eCur'.rows) = eRowCount' - eRowCount
                /\ eCur'.firstRow = eRowCount]_vars

\* C24 witness: next() has returned false after an iteration that read a result of
\* more than two pages from the statement, the last page being a short one.
C24_Witness ==
    /\ eOneShot /\ qN > 2 * kPageSize
    /\ eCall.op = "next" /\ eRet = "false"
    /\ eCurRow = qN - 1 /\ Len(eYield) = qN
    /\ eRowCount = qN /\ ~eHasStmt
    /\ qLastSeq = eLastSeq

--------------------------------------------------------------------------
(* Claims about seek, getRowCount and refresh, checked under SpecEnum *)

\* The rows a buffered enumerator recorded when it was created, and the rows the
\* query yields now.
RecordedRows == [i \in 1..qN |-> ResultRow(i - 1, 0)]

CurrentRows == [i \in 1..qTable.len |-> ResultRow(i - 1, qTable.ver)]

Called(op) == eCall'.op = op

\* C13: refresh() of a buffered enumerator returns a new enumerator iff the
\* key-store's lastSequence differs from the enumerator's and the rows recorded now
\* differ from the rows the enumerator recorded; in every other case it returns null,
\* for any result (an empty one too) and any iteration position.
C13_RefreshIffChanged ==
    [][(Called("refresh") /\ ~eOneShot) =>
          /\ eRet' \in {"new", "null"}
          /\ (eRet' = "new") <=> (qLastSeq # eLastSeq /\ RecordedRows # CurrentRows)]_vars

\* C14: getRowCount() of a buffered enumerator over qN rows returns qN whenever it is
\* called, and leaves the current row and the recordings as they are; qN is the
\* number of next() calls that return true in an iteration from the start.
C14_RowCount ==
    [][~eOneShot =>
          /\ Called("getRowCount") =>
                /\ eRet' = "ok"
                /\ eCall'.count = qN
                /\ UNCHANGED <<eCurRow, eCur, eNext, eOld, eHasStmt, eRowCount, qStmt>>
          /\ (eRet' = "false" /\ Len(eYield') = eCurRow' + 1) => Len(eYield') = qN]_vars

\* C14 witness: getRowCount was called in the middle of a buffered iteration and
\* returned the size of the result.
C14_Witness ==
    /\ ~eOneShot /\ qN >= 2
    /\ eCall.op = "getRowCount" /\ eCall.count = qN
    /\ eCur.present /\ eCurRow \in 0..(qN - 2)

\* C15: on a buffered enumerator over qN rows, from every state, seek(i) with
\* 0 <= i < qN succeeds and makes row i the current row, and the next() after it
\* moves to row i + 1.
C15_BufferedSeek ==
    [][~eOneShot =>
          /\ (Called("seek") /\ eCall'.arg \in 0..(qN - 1)) =>
                /\ eRet' = "ok"
                /\ eCurRow' = eCall'.arg
                /\ eCur'.present
                /\ PlaybackRow(eCur') = ResultRow(eCall'.arg, 0)
          /\ (eCall.op = "seek" /\ eRet = "ok" /\ eCall.arg >= 0 /\ Called("next")) =>
                IF eCall.arg + 1 < qN
                  THEN /\ eRet' = "true"
                       /\ eCurRow' = eCall.arg + 1
                       /\ PlaybackRow(eCur') = ResultRow(eCall.arg + 1, 0)
                  ELSE eRet' = "false"]_vars

\* C16: in either mode and from any state, seek(i) with i at or past the number of
\* result rows fails with InvalidParameter.
C16_SeekPastEnd ==
    (eCall.op = "seek" /\ eCall.arg >= qN) => eRet = "InvalidParameter"

\* C16 witness: a one-shot enumerator that had read the first page of a longer
\* result was asked for a row past the end, and refused with InvalidParameter.
C16_Witness ==
    /\ eOneShot /\ qN > kPageSize
    /\ eCall.op = "seek" /\ eCall.arg >= qN
    /\ eRet = "InvalidParameter"
    /\ eCurRow \in 0..(kPageSize - 1)

\* C17: a one-shot enumerator rejects refresh() with UnsupportedOperation, and
\* rejects with UnsupportedOperation a seek to a row before the first row of its
\* current recording, other than the row just before that first row; a buffered
\* enumerator never raises UnsupportedOperation from seek or refresh.
C17_Unsupported ==
    [][/\ (eOneShot /\ Called("refresh")) => eRet' = "UnsupportedOperation"
       /\ (eOneShot /\ Called("seek") /\ eCur.present
             /\ eCall'.arg < eCur.firstRow - 1) => eRet' = "UnsupportedOperation"
       /\ (~eOneShot /\ (Called("seek") \/ Called("refresh"))) =>
             eRet' # "UnsupportedOperation"]_vars

\* C18: a seek that fails (past the end, or an unsupported backward seek) and a
\* refresh refused on a one-shot enumerator leave the current row index, the
\* current / next / old recordings and the position of the statement as they were.
C18_FailureChangesNothing ==
    [][(\/ Called("seek") /\ eRet' \in {"InvalidParameter", "UnsupportedOperation"}
        \/ Called("refresh") /\ eOneShot) =>
          UNCHANGED <<eCurRow, eCur, eNext, eOld, eHasStmt, eRowCount, qStmt>>]_vars

\* C30: on a one-shot enumerator over qN rows, from every state, seek(i) to a row
\* after the current one that exists (current row < i < qN) succeeds and makes row
\* i the current row.
C30_ForwardSeek ==
    [][(eOneShot /\ Called("seek") /\ eCurRow < eCall'.arg /\ eCall'.arg < qN) =>
          /\ eRet' = "ok"
          /\ eCurRow' = eCall'.arg
          /\ eCur'.present
          /\ PlaybackRow(eCur') = ResultRow(eCall'.arg, 0)]_vars

\* A step in which fastForward runs: getRowCount, or the notification of a writer's
\* beginning transaction to a registered enumerator.
RunsFastForward ==
    \/ Called("getRowCount")
    \/ Called("writer") /\ ~qWriter /\ qObservers

\* C31: on a one-shot enumerator, whenever fastForward runs while the statement is
\* live no next recording is queued (its first assertion holds and no parked
\* recording is overwritten), and the statement is released when it returns (its
\* second assertion holds).
C31_FastForwardAsserts ==
    [][(eOneShot /\ RunsFastForward /\ eHasStmt) =>
          /\ ~eNext.present
          /\ eRet' # "AssertionFailed"
          /\ ~eHasStmt']_vars

\* C33: whenever refresh() of a buffered enumerator makes the comparison (the
\* query was run again), this enumerator and the new one both hold a recording, so
\* refresh returns null or a new enumerator without going through a missing one.
C33_RefreshComparesRecordings ==
    [][(~eOneShot /\ Called("refresh")
          /\ createEnumerator(eLastSeq, qLastSeq) = "new") =>
          /\ ContentsOf(Enum, TRUE).present
          /\ ContentsOf(NewEnum(FALSE, qTable), FALSE).present
          /\ eRet' \in {"new", "null"}]_vars

--------------------------------------------------------------------------
(* Claims about the named key-store handles, checked under SpecKvs *)

\* C21: openKVS(name) is memoized: a call with no close since the last openKVS(name)
\* returns the same handle and opens nothing; closeKeyStore(name) and
\* deleteKeyStore(name) close the handle and remove the cache entry, so that the
\* next openKVS(name) opens a fresh handle.
C21_OpenKVSMemoized ==
    [][LET name == kvCall'.name
           returned == kvRet'.err = "none"
       IN  /\ (kvCall'.op = "openKVS" /\ returned) =>
                 IF kvLast[name] # 0
                   THEN kvRet'.h = kvLast[name] /\ kvOpens' = kvOpens
                   ELSE /\ kvOpens' = kvOpens + 1
                        /\ kvRet'.h = kvOpens'
                        /\ kvRet'.h \in kvOpen'
           /\ (kvCall'.op \in {"closeKeyStore", "deleteKeyStore"} /\ returned) =>
                 /\ kvHandles'[name] = NoEntry
                 /\ kvLast[name] \notin kvOpen']_vars

\* C34: the key-store handle cache never maps a name to a null handle, and an
\* openKVS that returns hands out a non-null handle that is open in the engine.
C34_NoNullHandle ==
    /\ \A name \in KvNames : kvHandles[name] # 0
    /\ (kvCall.op = "openKVS" /\ kvRet.err = "none") =>
          (kvRet.h # 0 /\ kvRet.h \in kvOpen)

--------------------------------------------------------------------------
(* Claims about deleteDatabase and the key-store handles, checked under SpecKvsDelete *)

\* C35: after deleteDatabase, with or without reopen, the key-store handle cache
\* holds no handle that belonged to the file handle it closed, and an openKVS that
\* returns never hands out such a handle.
C35_NoStaleHandle ==
    /\ \A name \in KvNames : kvHandles[name] \notin kvStale
    /\ (kvCall.op = "openKVS" /\ kvRet.err = "none") => kvRet.h \notin kvStale

--------------------------------------------------------------------------
(* Claims about the peer checkpoints, checked under SpecCp *)

\* The last request was a setCheckpoint that names a client, and the storage read
\* the checkpoint and stored what it was asked to store.
SetServed ==
    /\ cpCall'.op = "setCheckpoint"
    /\ cpCall'.req.client # "none"
    /\ cpCall'.st.get = "ok" /\ cpCall'.st.putOk /\ cpCall'.st.commitOk

\* C22: a setCheckpoint request is answered with 409 iff its rev property differs
\* from the stored checkpoint's meta (no checkpoint counting as empty meta); when it
\* does not conflict the stored meta becomes "<g+1>-cc", g the stored generation
\* (0 if none), and that rev is the answer; a conflicting request leaves the stored
\* checkpoint as it is.
C22_SetCheckpoint ==
    [][SetServed =>
         LET req == cpCall'.req
             old == cpStore[req.client]
             g   == IF old.present THEN strtol(old.meta) ELSE 0
             new == Decimal(g + 1) \o <<"-", "c", "c">>
         IN  IF req.rev # old.meta
               THEN cpResp' = <<ErrorResponse("409")>> /\ cpStore' = cpStore
               ELSE /\ cpResp' = <<RevResponse(new)>>
                    /\ cpStore'[req.client].meta = new
                    /\ strtol(new) = g + 1
                    /\ \A c \in Clients \ {req.client} : cpStore'[c] = cpStore[c]]_vars

\* C38: every getCheckpoint / setCheckpoint request receives exactly one response,
\* whichever way it ends, and a setCheckpoint whose transaction failed to begin
\* writes nothing to the peer checkpoint store.
C38_OneResponse ==
    [][(cpCall'.op \in {"getCheckpoint", "setCheckpoint"}) =>
         /\ Len(cpResp') = 1
         /\ (cpCall'.op = "setCheckpoint" /\ ~cpCall'.st.beginOk) => cpStore' = cpStore]_vars

--------------------------------------------------------------------------
(* Claims about the engine calls of a Transaction, checked under SpecTxn *)

\* Thread t's beginTransaction has taken the slot, or has raised the engine's error.
Begins(t) ==
    /\ pc[t] \in {"idle", "woken"}
    /\ pc'[t] = "active" \/ (pc'[t] = "idle" /\ raised'[t] = "begin")

\* C23: the engine calls made for a Transaction are determined by its state:
\* beginTransaction opens an engine transaction only when the state is kCommit;
\* endTransaction commits when the state is kCommit, aborts when it is kAbort (a
\* failing abort raises nothing), and makes no engine call when it is kNoOp.
C23_EngineCallsByState ==
    [][\A t \in Threads :
         /\ Begins(t) =>
               /\ (pc'[t] = "active") =>
                     (engCall'[t].call = "fdb_begin_transaction" <=> txState'[t] = "kCommit")
               /\ (pc'[t] = "idle") =>
                     engCall'[t] = EngineCall("fdb_begin_transaction", FALSE)
         /\ Ends(t) =>
               /\ (txState[t] = "kCommit") => engCall'[t].call = "fdb_end_transaction"
               /\ (txState[t] = "kAbort") =>
                     /\ engCall'[t].call = "fdb_abort_transaction"
                     /\ raised'[t] = "none"
               /\ (txState[t] = "kNoOp") => engCall'[t].call = "none"
               /\ (raised'[t] = "commit") =>
                     engCall'[t] = EngineCall("fdb_end_transaction", FALSE)]_vars

\* C23 witness: a Transaction that a failed operation had set to kAbort has ended;
\* the engine's abort failed and nothing was raised.
C23_Witness ==
    \E t \in Threads :
        /\ pc[t] = "idle"
        /\ engCall[t] = EngineCall("fdb_abort_transaction", FALSE)
        /\ raised[t] = "none"

--------------------------------------------------------------------------
(* Claims about the pre-transaction observer, checked under SpecEnum *)

\* C25: a one-shot enumerator is registered as a pre-transaction observer exactly
\* while it holds a live statement, and once the statement is released it never
\* registers again; a buffered enumerator has released its statement by the end of
\* its construction and never registers.
C25_ObservesWhileLive ==
    /\ eOneShot => (eHasStmt <=> (eObserving /\ qObservers))
    /\ eOneShot => (~eHasStmt => (~eObserving /\ ~qObservers))
    /\ ~eOneShot => (~eHasStmt /\ ~eObserving /\ ~qObservers)

--------------------------------------------------------------------------
(* Claims about the missing-columns bitmap, checked under SpecRow *)

\* C28: in the bitmap written after a recorded row, bit i (i < 64) is set iff
\* column i of the row was SQL NULL, and no other bit is set; columns 64 and up
\* leave the bitmap alone.
C28_MissingBitmap ==
    rDone = "encoded" => rMissing = {i \in rNulls : i < BitmapBits}

--------------------------------------------------------------------------
(* Claims about the enumerators of one query, checked under SpecShared *)

\* C32: enumerators created from the same query are independent: whatever is done
\* with another enumerator (creating it, binding its parameters, iterating it,
\* destroying it), every enumerator is created without error and yields the rows
\* of the full result under its own parameter bindings, from row 0 on, each once.
C32_EnumeratorsIndependent ==
    \A k \in EnumIds :
        /\ shEnum[k].life # "failed"
        /\ \A i \in 1..Len(shEnum[k].yield) :
              shEnum[k].yield[i] = ResultRow(i - 1, shEnum[k].param)
        /\ shEnum[k].ret = "false" => Len(shEnum[k].yield) = shN

--------------------------------------------------------------------------
(* Claims about the writers of one File, checked under SpecWriters / SpecWritersFair *)

InBeginTransaction(t) == wkPc[t] \in {"waiting", "woken"}

\* C36: no wake-up is lost on the transaction slot.  When every Transaction that
\* begins ends and the threads are scheduled fairly, a thread does not stay in the
\* condition wait of beginTransaction for ever while the slot is free, and every
\* thread blocked in beginTransaction gets out of it (it acquires the slot, or the
\* engine refuses its transaction).
C36_NoLostWakeup ==
    \A t \in Writers :
        /\ ~<>[](wkTransaction = 0 /\ wkPc[t] = "waiting")
        /\ InBeginTransaction(t) ~> ~InBeginTransaction(t)

\* C37: File::_transaction points to a Transaction exactly while that Transaction
\* has completed beginTransaction and not yet run endTransaction.  When the engine
\* fails to open a transaction in beginTransaction the slot is left null, the
\* Transaction never ends, and no other writer is left blocked (a writer that is
\* still in the condition wait has a woken writer ahead of it); endTransaction
\* only runs for the Transaction that is in the slot.
C37_SlotHoldsBegunTransaction ==
    /\ \A t \in Writers : wkPc[t] = "active" <=> wkTransaction = t
    /\ (wkStep.op = "beginTransaction" /\ wkStep.outcome = "throw") =>
          /\ wkTransaction = 0
          /\ wkPc[wkStep.t] = "idle"
          /\ (\E u \in Writers : wkPc[u] = "waiting") =>
                (\E v \in Writers : wkPc[v] = "woken")
    /\ wkStep.op = "endTransaction" => wkStep.inSlot

--------------------------------------------------------------------------
(* Claims about DBActor::dbChanged, checked under SpecChanges *)

\* C39: when the observer fires, dbChanged gives the pusher each pending change
\* exactly once, in sequence order, however many batches of up to kMaxChanges
\* changes the observer returns in the one invocation.
C39_EachChangeOnce ==
    dcCall.op = "dbChanged" =>
        /\ pusherGot = ChangesAfter(dcCall.from, dcCall.to - dcCall.from)
        /\ obsSeen = dcCall.to

====
